---- MODULE Spec2Model ----
(***************************************************************************)
(* Event normalization and graph write paths of blueprint-graph:           *)
(*   - OCSFSchema.map_to_ocsf and the DetectSourceFormat step,             *)
(*   - the three graph writers (KafkaConsumer.process_event, the direct    *)
(*     write of create_event, StoreInGraph.process of the Beam pipeline),  *)
(*   - the graph store as the Cypher statements of the writers change it.  *)
(* One action is one store statement of a writer (the code suspends only   *)
(* at db.execute_query), together with the Python code around it.          *)
(***************************************************************************)
EXTENDS Integers, Sequences, FiniteSets, Bags, TLC

(***************************************************************************)
(* Bounds of the model.                                                    *)
(***************************************************************************)
\* Writes begun in one behaviour, over all writers.
MaxWrites == 2

(***************************************************************************)
(* Python values.  Dictionaries are functions from keys to values; None    *)
(* is a value of its own.                                                  *)
(***************************************************************************)
None == "None#"

EmptyDict == [k \in {} |-> None]

\* A value that is not a mapping (a JSON array of strings) is the function
\* on its items together with the item ListTag, so that `k in v` is
\* k \in DOMAIN v for arrays and dictionaries alike.
ListTag == "#list"

\* isinstance(v, dict)
IsDict(v) == ListTag \notin DOMAIN v

\* d.get(k, default)
Get(d, k, default) == IF k \in DOMAIN d THEN d[k] ELSE default

\* {k: v for k, v in d.items() if k not in ks}
Without(d, ks) == [k \in DOMAIN d \ ks |-> d[k]]

(***************************************************************************)
(* OCSFSchema (schemas/ocsf_schema.py).                                    *)
(***************************************************************************)
SchemaVersion == "1.0.0"

SyslogToOcsf ==
    (0 :> 10) @@ (1 :> 9) @@ (2 :> 8) @@ (3 :> 7) @@
    (4 :> 6) @@ (5 :> 5) @@ (6 :> 4) @@ (7 :> 3)

\* Faulty variant: the lookup defaults to 0.
map_syslog_severity_default0(severity) ==
    IF severity \in DOMAIN SyslogToOcsf THEN SyslogToOcsf[severity] ELSE 0

map_syslog_severity(severity) ==
    IF severity \in DOMAIN SyslogToOcsf THEN SyslogToOcsf[severity] ELSE 5

map_syslog_to_ocsf(event) ==
    [class_uid |-> "0001",
     category_uid |-> "0002",
     time |-> Get(event, "timestamp", None),
     severity |-> map_syslog_severity(Get(event, "severity", 0)),
     message |-> Get(event, "message", ""),
     metadata |-> [version |-> SchemaVersion,
                   product |-> [name |-> "Syslog",
                                vendor_name |-> Get(event, "hostname", "Unknown")]]]

map_cef_to_ocsf(event) ==
    [class_uid |-> "0001",
     category_uid |-> "0002",
     time |-> Get(event, "deviceReceiptTime", None),
     severity |-> Get(event, "severity", 0),
     message |-> Get(event, "message", ""),
     metadata |-> [version |-> SchemaVersion,
                   product |-> [name |-> Get(event, "deviceProduct", "Unknown"),
                                vendor_name |-> Get(event, "deviceVendor", "Unknown")]]]

map_leef_to_ocsf(event) ==
    [class_uid |-> "0001",
     category_uid |-> "0002",
     time |-> Get(event, "devtime", None),
     severity |-> Get(event, "severity", 0),
     message |-> Get(event, "message", ""),
     metadata |-> [version |-> SchemaVersion,
                   product |-> [name |-> Get(event, "devname", "Unknown"),
                                vendor_name |-> Get(event, "devtype", "Unknown")]]]

\* Faulty variant: a format that is not known is mapped as syslog.
map_to_ocsf_fallback(event, source_format) ==
    CASE source_format = "cef" -> map_cef_to_ocsf(event)
      [] source_format = "leef" -> map_leef_to_ocsf(event)
      [] OTHER -> map_syslog_to_ocsf(event)

map_to_ocsf(event, source_format) ==
    CASE source_format = "syslog" -> map_syslog_to_ocsf(event)
      [] source_format = "cef" -> map_cef_to_ocsf(event)
      [] source_format = "leef" -> map_leef_to_ocsf(event)
      [] OTHER -> event

(***************************************************************************)
(* Pipeline steps (pipelines/ingest.py).                                   *)
(***************************************************************************)
AnyIn(ks, element) == \E k \in ks : k \in DOMAIN element

\* Faulty variant: the CEF, LEEF and syslog checks come before the OCSF check.
DetectSourceFormatOcsfLast(element) ==
    IF IsDict(element)
       /\ AnyIn({"deviceVendor", "deviceProduct", "deviceVersion"}, element)
    THEN "cef"
    ELSE IF IsDict(element) /\ AnyIn({"devname", "devtime", "devtype"}, element)
    THEN "leef"
    ELSE IF IsDict(element)
            /\ AnyIn({"facility", "severity", "timestamp", "hostname"}, element)
    THEN "syslog"
    ELSE IF /\ IsDict(element)
            /\ "class_uid" \in DOMAIN element
            /\ "category_uid" \in DOMAIN element
    THEN "ocsf"
    ELSE "unknown"

\* Faulty variant: the isinstance(element, dict) tests are left out.
DetectSourceFormatNoTypeCheck(element) ==
    IF "class_uid" \in DOMAIN element /\ "category_uid" \in DOMAIN element
    THEN "ocsf"
    ELSE IF AnyIn({"deviceVendor", "deviceProduct", "deviceVersion"}, element)
    THEN "cef"
    ELSE IF AnyIn({"devname", "devtime", "devtype"}, element)
    THEN "leef"
    ELSE IF AnyIn({"facility", "severity", "timestamp", "hostname"}, element)
    THEN "syslog"
    ELSE "unknown"

\* DetectSourceFormat.process: the source_format it decides on
DetectSourceFormat(element) ==
    IF /\ IsDict(element)
       /\ "class_uid" \in DOMAIN element
       /\ "category_uid" \in DOMAIN element
    THEN "ocsf"
    ELSE IF IsDict(element)
            /\ AnyIn({"deviceVendor", "deviceProduct", "deviceVersion"}, element)
    THEN "cef"
    ELSE IF IsDict(element) /\ AnyIn({"devname", "devtime", "devtype"}, element)
    THEN "leef"
    ELSE IF IsDict(element)
            /\ AnyIn({"facility", "severity", "timestamp", "hostname"}, element)
    THEN "syslog"
    ELSE "unknown"

\* DetectSourceFormat.process: the (element, source_format) pairs it yields
DetectSourceFormatProcess(element) ==
    << <<element, DetectSourceFormat(element)>> >>

\* MapToOCSF.process on (event, source_format)
MapToOCSFProcess(event, source_format) ==
    IF source_format = "ocsf" THEN event ELSE map_to_ocsf(event, source_format)

\* Faulty variant: the consumer maps every event, an "ocsf" one through the syslog
\* mapper.
ConsumerMapStepNoBypass(event_data, source_format) ==
    map_to_ocsf(event_data,
                IF source_format = "ocsf" THEN "syslog" ELSE source_format)

\* KafkaConsumer.process_event, the mapping step
ConsumerMapStep(event_data, source_format) ==
    IF source_format # "ocsf" THEN map_to_ocsf(event_data, source_format)
    ELSE event_data

\* create_event, the mapping step
ApiMapStep(event, source_format) ==
    IF source_format # "ocsf" THEN map_to_ocsf(event, source_format)
    ELSE event

(***************************************************************************)
(* Entity resolution, as each writer does it inline:                       *)
(*   type = frag.get("type", default)                                      *)
(*   id   = frag.get("id", str(hash(json.dumps(frag))))                    *)
(*   props = {k: v for k, v in frag.items() if k not in ["id", "type"]}    *)
(***************************************************************************)
\* The order in which a fragment's keys are serialized (the order the
\* producers of the model's fragments write them).
FragKeyOrder == <<"type", "id", "ip", "os">>

\* json.dumps(frag): the serialized text, as its sequence of key and value
\* tokens.
JsonDumps(frag) ==
    LET present == SelectSeq(FragKeyOrder, LAMBDA k : k \in DOMAIN frag)
    IN  [i \in 1..(2 * Len(present)) |->
            IF i % 2 = 1 THEN present[(i + 1) \div 2]
            ELSE frag[present[i \div 2]]]

\* The tokens of the model's fragments, for the hash.
Tokens == <<"type", "id", "ip", "os", "Host", "IP", "User", "a", "b", "p",
            "1", "2", "x">>

TokenCode(t) == CHOOSE i \in 1..Len(Tokens) : Tokens[i] = t

\* The seeds a Python process can draw for its string hash (PYTHONHASHSEED
\* is unset, so each process draws its own at start).
Seeds == {1, 2}

\* hash(text) of a str in a process whose hash seed is `seed`: a keyed hash,
\* a function of the seed and the text.
RECURSIVE HashFold(_, _)
HashFold(h, toks) ==
    IF toks = <<>> THEN h
    ELSE HashFold((h * 16 + TokenCode(Head(toks))) % (2 ^ 30), Tail(toks))

PyHash(seed, toks) == HashFold(seed, toks)

EntityType(frag, default) == Get(frag, "type", default)

EntityId(frag, seed) ==
    IF "id" \in DOMAIN frag THEN frag["id"]
    ELSE ToString(PyHash(seed, JsonDumps(frag)))

EntityProps(frag) == Without(frag, {"id", "type"})

(***************************************************************************)
(* The graph store: nodes in creation order (a node's id is its index),    *)
(* relationships as a bag of [type, from, to].                             *)
(***************************************************************************)
\* json.dumps(metadata) of the Event parameters, as its token sequence.
JsonDumpsMeta(md) ==
    IF "product" \in DOMAIN md
    THEN <<"version", md.version, "product",
           "name", md.product.name, "vendor_name", md.product.vendor_name>>
    ELSE <<>>

\* The keys whose parameter can be None in the model.
NullableKeys == {"class_uid", "category_uid", "time"}

\* CREATE (n:label {props}): a property set to null is not stored.
NewNode(label, props) ==
    [label |-> label,
     props |-> [k \in {j \in DOMAIN props :
                        ~(j \in NullableKeys /\ props[j] = None)} |-> props[k]]]

\* params of the CREATE (e:Event ...) statement, consumer and create_event
EventParams(ocsf_event) ==
    [class_uid |-> Get(ocsf_event, "class_uid", "unknown"),
     category_uid |-> Get(ocsf_event, "category_uid", "unknown"),
     time |-> Get(ocsf_event, "time", ""),
     severity |-> Get(ocsf_event, "severity", 0),
     message |-> Get(ocsf_event, "message", ""),
     metadata |-> JsonDumpsMeta(Get(ocsf_event, "metadata", EmptyDict))]

\* params of the CREATE (e:Event ...) statement, StoreInGraph.process
BeamEventParams(element) ==
    [class_uid |-> Get(element, "class_uid", None),
     category_uid |-> Get(element, "category_uid", None),
     time |-> Get(element, "time", None),
     severity |-> Get(element, "severity", 0),
     message |-> Get(element, "message", ""),
     metadata |-> JsonDumpsMeta(Get(element, "metadata", EmptyDict))]

\* MERGE (s:label {id: $id}): the nodes the pattern matches
MatchNodes(ns, label, id) ==
    {i \in 1..Len(ns) : /\ ns[i].label = label
                        /\ "id" \in DOMAIN ns[i].props
                        /\ ns[i].props["id"] = id}

\* Faulty variant: CREATE in place of MERGE.
MergeNodesAlwaysCreate(ns, found, label, id, props) ==
    Append(ns, NewNode(label, props @@ ("id" :> id)))

\* MERGE (s:label {id: $id}) ON CREATE SET s += $props, given the nodes the
\* pattern matched: the nodes afterwards
MergeNodes(ns, found, label, id, props) ==
    IF found = {} THEN Append(ns, NewNode(label, props @@ ("id" :> id)))
    ELSE ns

\* the nodes bound to s after the MERGE
MergeBound(ns, found) == IF found = {} THEN {Len(ns) + 1} ELSE found

\* MATCH (e:Event) WHERE id(e) = $event_id
MatchEvent(ns, event_id) ==
    {i \in 1..Len(ns) : i = event_id /\ ns[i].label = "Event"}

\* CREATE (s)-[:type]->(e) or CREATE (e)-[:type]->(s), once per row
NewRels(type, outgoing, bound, events) ==
    {[type |-> type,
      from |-> IF outgoing THEN s ELSE e,
      to |-> IF outgoing THEN e ELSE s] : s \in bound, e \in events}

AddRels(rs, new) == rs (+) SetToBag(new)

\* Faulty variant: the statements of a write share one transaction, and a
\* statement that fails takes the write's Event node and all after it along.
FailedStatementRollsBackWrite(ns, event_id) == SubSeq(ns, 1, event_id - 1)

\* The nodes after a statement raised in execute_query: the statement ran
\* in a session of its own (auto-commit), so only its own changes are undone
\* and what earlier statements committed stays.
FailedStatement(ns, event_id) == ns

(***************************************************************************)
(* The inputs of the model.                                                *)
(***************************************************************************)
FragA1 == [type |-> "Host", id |-> "a", ip |-> "1"]
FragA2 == [type |-> "Host", id |-> "a", ip |-> "2", os |-> "x"]
FragH1 == [type |-> "Host", ip |-> "1"]
FragH2 == [type |-> "Host", ip |-> "2"]
FragU == [id |-> "a", ip |-> "1"]
FragB == [type |-> "IP", id |-> "b", ip |-> "2"]
FragP == [id |-> "p", os |-> "x"]

\* The ids the model's fragments supply themselves.
SuppliedIds == {"a", "b", "p"}

OcsfBase ==
    [class_uid |-> "0001", category_uid |-> "0002", time |-> "t1",
     severity |-> 5, message |-> "m"]

OcsfEvents ==
    {OcsfBase,
     OcsfBase @@ [src |-> FragA1],
     OcsfBase @@ [src |-> FragA2],
     OcsfBase @@ [src |-> FragH1],
     OcsfBase @@ [src |-> FragH2],
     OcsfBase @@ [src |-> FragU, dst |-> FragB],
     OcsfBase @@ [src |-> FragA1, dst |-> FragB, principal |-> FragP]}

SyslogEvent ==
    [timestamp |-> "t1", hostname |-> "h1", severity |-> 3, message |-> "m"]

\* A raw event of no known shape, with an entity fragment.
RawEvent == [message |-> "m", src |-> FragA1]

\* Queue messages {event, source_format}; either key may be missing.
Messages ==
    {[event |-> e, source_format |-> "ocsf"] : e \in OcsfEvents}
    \cup {[event |-> SyslogEvent, source_format |-> "syslog"],
          [event |-> SyslogEvent, source_format |-> "xml"],
          [event |-> RawEvent],
          [source_format |-> "ocsf"]}

\* EventCreate bodies; source_format defaults to "unknown".
Requests ==
    {[event |-> e, source_format |-> "ocsf"] : e \in OcsfEvents}
    \cup {[event |-> SyslogEvent, source_format |-> "syslog"],
          [event |-> SyslogEvent, source_format |-> "xml"],
          [event |-> RawEvent, source_format |-> "unknown"]}

\* Elements the pipeline parses.
Elements == OcsfEvents \cup {SyslogEvent, RawEvent}

(***************************************************************************)
(* The writers: two consumer instances, the API process (direct write of   *)
(* create_event) and the pipeline worker (StoreInGraph).                   *)
(***************************************************************************)
Consumers == {"c1", "c2"}

Writers == Consumers \cup {"api", "beam"}

VARIABLES
    nodes,     \* the store's nodes, in creation order
    rels,      \* the store's relationships, a bag
    pc,        \* per writer: idle, create, src, dst, principal, ret
    inp,       \* per writer: the raw event and its format, as received
    cur,       \* per writer: the canonical event handed to the write
    eid,       \* per writer: event_id of the Event node it created
    res,       \* per writer: outcome of the write that is returning
    seed,      \* per writer: its process's hash seed, 0 until first used
    phase,     \* per writer: "match" or "write" within a MERGE statement
    found,     \* per writer: the nodes its MERGE matched
    writes,    \* writes begun
    nCreated,  \* history: CREATE (e:Event) statements that succeeded
    nQueued,   \* history: writes begun by a consumer
    merged,    \* history: per (type, id), the fragments' properties merged
               \*          last-write-wins
    linked,    \* history: (event id, stage) of each MERGE that succeeded
    mstep,     \* mapper probe: off, new, detected, mapped, declared, raised
    mraw,      \* mapper probe: the raw event
    mfmt,      \* mapper probe: the detected or declared format
    mdet,      \* mapper probe: the pairs the detector yielded
    mout,      \* mapper probe: the mapped event
    rules,     \* detection_engine.rules, in insertion order
    resp,      \* rule API: the last call, its rule_id and its status
    out,       \* rule API: what the last call returned (rules or alerts)
    runs,      \* detection runs made
    nAlerts,   \* alerts generated
    stored,    \* history: what store_alert answered for each alert of the
               \*          last run
    loaded,    \* history: per rule_id, the rule last loaded and not removed
    prev,      \* history: the rules before the last call
    topic,     \* the messages delivered to the input topic, in order
    pending,   \* messages produced and not yet delivered or given up
    sent,      \* the last send_event: what became of the message and
               \*                      what the call returned
    qresp,     \* the last create_event in queue mode: status and id
    sends,     \* create_event calls in queue mode made
    use_kafka, \* settings.use_kafka
    producer,  \* the global producer of kafka/producer.py is set
    lstate,    \* where start of the consumer instance is: not called
               \* ("new"), in its loop ("loop"), left ("exited")
    running,   \* KafkaConsumer.running of the consumer instance looping
    closed,    \* its loop has ended and close() was called
    polls,     \* polls its loop has made
    polled,    \* history: what each poll returned
    handled,   \* history: the polls whose message process_event returned
               \*          from, in order
    llog,      \* history: the errors logged, each with its poll
    driver,    \* Neo4jConnection._driver is set
    graph,     \* Neo4jConnection._graph is set
    connected, \* history: the last _connect ran to its end
    dbhist     \* history: the calls made on the connection, each with what
               \*          it answered

writerVars == <<nodes, rels, pc, inp, cur, eid, res, seed, phase, found,
                writes, nCreated, nQueued, merged, linked>>

mapperVars == <<mstep, mraw, mfmt, mdet, mout>>

ruleVars == <<rules, resp, out, runs, nAlerts, stored, loaded, prev>>

producerVars == <<topic, pending, sent, qresp, sends, use_kafka, producer>>

loopVars == <<lstate, running, closed, polls, polled, handled, llog>>

queueVars == <<producerVars, loopVars>>

dbVars == <<driver, graph, connected, dbhist>>

vars == <<writerVars, mapperVars, ruleVars, queueVars, dbVars>>

NoInput == [event |-> EmptyDict, fmt |-> ""]

\* event_id is str(id) in the consumer and in create_event, the integer id
\* in StoreInGraph.
NoEventId(w) == IF w = "beam" THEN 0 ELSE ""

InitMapperOff ==
    /\ mstep = "off"
    /\ mraw = EmptyDict
    /\ mfmt = ""
    /\ mdet = <<>>
    /\ mout = EmptyDict

InitWriters ==
    /\ nodes = <<>>
    /\ rels = EmptyBag
    /\ pc = [w \in Writers |-> "idle"]
    /\ inp = [w \in Writers |-> NoInput]
    /\ cur = [w \in Writers |-> EmptyDict]
    /\ eid = [w \in Writers |-> NoEventId(w)]
    /\ res = [w \in Writers |-> ""]
    /\ seed = [w \in Writers |-> 0]
    /\ phase = [w \in Writers |-> "match"]
    /\ found = [w \in Writers |-> {}]
    /\ writes = 0
    /\ nCreated = 0
    /\ nQueued = 0
    /\ merged = <<>>
    /\ linked = {}

NoCall == [op |-> "", rule_id |-> "", status |-> ""]

InitRulesOff ==
    /\ rules = <<>>
    /\ resp = NoCall
    /\ out = <<>>
    /\ runs = 0
    /\ nAlerts = 0
    /\ stored = <<>>
    /\ loaded = <<>>
    /\ prev = <<>>

NoSend == [outcome |-> "", callback |-> "", returned |-> FALSE]

NoResponse == [status |-> "", id |-> ""]

InitQueueOff ==
    /\ topic = <<>>
    /\ pending = <<>>
    /\ sent = NoSend
    /\ qresp = NoResponse
    /\ sends = 0
    /\ use_kafka = FALSE
    /\ producer = FALSE

InitLoopOff ==
    /\ lstate = "new"
    /\ running = FALSE
    /\ closed = FALSE
    /\ polls = 0
    /\ polled = <<>>
    /\ handled = <<>>
    /\ llog = <<>>

\* Neo4jConnection(auto_connect=False)
InitDbOff ==
    /\ driver = FALSE
    /\ graph = FALSE
    /\ connected = FALSE
    /\ dbhist = <<>>

Init ==
    /\ InitWriters
    /\ InitMapperOff
    /\ InitRulesOff
    /\ InitQueueOff
    /\ InitLoopOff
    /\ InitDbOff

(***************************************************************************)
(* The writers' code between store statements.                             *)
(***************************************************************************)
\* The entity fragments a writer handles, in the order of its code.
Stages(w) ==
    IF w = "beam" THEN <<"src", "dst", "principal">> ELSE <<"src", "dst">>

StageIndex(w, stage) ==
    IF stage = "create" THEN 0
    ELSE CHOOSE i \in 1..Len(Stages(w)) : Stages(w)[i] = stage

\* The next `if "<key>" in event` that holds after `stage`, or the return.
NextStage(w, event, stage) ==
    LET later == {i \in (StageIndex(w, stage) + 1)..Len(Stages(w)) :
                    Stages(w)[i] \in DOMAIN event}
    IN  IF later = {} THEN "ret"
        ELSE Stages(w)[CHOOSE i \in later : \A j \in later : i <= j]

\* frag.get("type", ...): "User" for the principal, "Unknown" otherwise
StageDefaultType(stage) == IF stage = "principal" THEN "User" ELSE "Unknown"

StageRelType(stage) ==
    CASE stage = "src" -> "GENERATED"
      [] stage = "dst" -> "TARGETS"
      [] stage = "principal" -> "PERFORMED"

\* (s)-[..]->(e) for src and principal, (e)-[..]->(d) for dst
StageOutgoing(stage) == stage # "dst"

\* toInteger($event_id)
ToInteger(text, max) == CHOOSE n \in 0..max : ToString(n) = text

\* The id a writer's MATCH (e:Event) compares id(e) with.
EventIdOf(w, id, max) == IF w = "beam" THEN id ELSE ToInteger(id, max)

\* What the writer answers when a statement raised: the consumer and
\* create_event give the write up; _process_entities logs and StoreInGraph
\* still yields the element.
FailureResult(w, stage) ==
    IF w = "beam" /\ stage # "create" THEN "ok" ELSE "error"

\* What the caller of the write gets back, given the writer's outcome r
\* and event_id: process_event returns None whatever happened (its except
\* clause logs), create_event answers EventResponse(id=event_id) or raises
\* HTTPException(500), StoreInGraph.process yields the element with its _id
\* or logs and yields nothing.
WriteResult(w, r, event_id) ==
    IF w \in Consumers THEN [kind |-> "return", value |-> None]
    ELSE IF w = "api"
    THEN IF r = "ok" THEN [kind |-> "return", value |-> event_id]
         ELSE [kind |-> "raise", value |-> "500"]
    ELSE IF r = "ok" THEN [kind |-> "yield", value |-> ToString(event_id)]
         ELSE [kind |-> "nothing", value |-> None]

(***************************************************************************)
(* Actions.  `exclusive` restricts a write to begin when no other is in    *)
(* progress.                                                               *)
(***************************************************************************)
CanBegin(w, exclusive) ==
    /\ pc[w] = "idle"
    /\ writes < MaxWrites
    /\ exclusive => \A v \in Writers : pc[v] = "idle"

Begin(w, event, source_format, ocsf_event) ==
    /\ pc' = [pc EXCEPT ![w] = "create"]
    /\ inp' = [inp EXCEPT ![w] = [event |-> event, fmt |-> source_format]]
    /\ cur' = [cur EXCEPT ![w] = ocsf_event]
    /\ writes' = writes + 1
    /\ nQueued' = IF w \in Consumers THEN nQueued + 1 ELSE nQueued
    /\ UNCHANGED <<nodes, rels, eid, res, seed, phase, found, nCreated,
                   merged, linked>>

\* KafkaConsumer.process_event up to the CREATE statement
ConsumerBegin(w, msg, exclusive) ==
    /\ w \in Consumers
    /\ CanBegin(w, exclusive)
    /\ LET event_data == Get(msg, "event", EmptyDict)
           source_format == Get(msg, "source_format", "unknown")
       IN  Begin(w, event_data, source_format,
                 ConsumerMapStep(event_data, source_format))
    /\ UNCHANGED <<mapperVars, ruleVars, queueVars, dbVars>>

\* create_event (direct write) up to the CREATE statement
ApiBegin(w, req, exclusive) ==
    /\ w = "api"
    /\ CanBegin(w, exclusive)
    /\ Begin(w, req.event, req.source_format,
             ApiMapStep(req.event, req.source_format))
    /\ UNCHANGED <<mapperVars, ruleVars, queueVars, dbVars>>

\* DetectSourceFormat, MapToOCSF and StoreInGraph.process up to the CREATE
BeamBegin(w, element, exclusive) ==
    /\ w = "beam"
    /\ CanBegin(w, exclusive)
    /\ LET source_format == DetectSourceFormat(element)
       IN  Begin(w, element, source_format,
                 MapToOCSFProcess(element, source_format))
    /\ UNCHANGED <<mapperVars, ruleVars, queueVars, dbVars>>

\* The params of the writer's CREATE (e:Event ...) statement.
WriterEventParams(w, event) ==
    IF w = "beam" THEN BeamEventParams(event) ELSE EventParams(event)

\* Faulty variant: MERGE in place of CREATE, an equal Event node is reused.
CreateEventNodeMerge(ns, params) ==
    IF \E i \in 1..Len(ns) :
          ns[i].label = "Event" /\ ns[i].props = NewNode("Event", params).props
    THEN ns
    ELSE Append(ns, NewNode("Event", params))

\* CREATE (e:Event {...}) RETURN id(e) as id
CreateEventNode(ns, params) == Append(ns, NewNode("Event", params))

\* db.execute_query(query, params) of the Event, and the code after it
CreateEvent(w) ==
    /\ pc[w] = "create"
    /\ \E ok \in BOOLEAN :
        IF ok
        THEN LET id == Len(nodes) + 1
                 next == NextStage(w, cur[w], "create")
             IN  /\ nodes' = CreateEventNode(nodes, WriterEventParams(w, cur[w]))
                 /\ eid' = [eid EXCEPT ![w] =
                               IF w = "beam" THEN id ELSE ToString(id)]
                 /\ cur' = [cur EXCEPT ![w] =
                               IF w = "beam" THEN [_id |-> id] @@ cur[w]
                               ELSE cur[w]]
                 /\ pc' = [pc EXCEPT ![w] = next]
                 /\ res' = [res EXCEPT ![w] = IF next = "ret" THEN "ok" ELSE ""]
                 /\ nCreated' = nCreated + 1
        ELSE /\ pc' = [pc EXCEPT ![w] = "ret"]
             /\ res' = [res EXCEPT ![w] = FailureResult(w, "create")]
             /\ UNCHANGED <<nodes, eid, cur, nCreated>>
    /\ UNCHANGED <<rels, inp, seed, phase, found, writes, nQueued, merged,
                   linked>>
    /\ UNCHANGED <<mapperVars, ruleVars, queueVars, dbVars>>

\* The seeds the writer's process may turn out to have.
SeedChoices(w, frag) ==
    IF "id" \notin DOMAIN frag /\ seed[w] = 0 THEN Seeds ELSE {seed[w]}

\* History: the properties of (type, id) under merge with last-write-wins.
Remember(label, id, props) ==
    LET key == <<label, id>>
    IN  (key :> (props @@ Get(merged, key, EmptyDict))) @@ merged

\* The MERGE ... CREATE relationship statement of stage pc[w], on the nodes
\* `fnd` its MERGE matched, and the code after it.
MergeApply(w, fnd, sd, ok) ==
    LET stage == pc[w]
        frag == cur[w][stage]
        label == EntityType(frag, StageDefaultType(stage))
        id == EntityId(frag, sd)
        props == EntityProps(frag)
        event_id == EventIdOf(w, eid[w], Len(nodes))
        next == NextStage(w, cur[w], stage)
    IN  /\ seed' = [seed EXCEPT ![w] = sd]
        /\ phase' = [phase EXCEPT ![w] = "match"]
        /\ found' = [found EXCEPT ![w] = {}]
        /\ IF ok
           THEN /\ nodes' = MergeNodes(nodes, fnd, label, id, props)
                /\ rels' = AddRels(rels,
                              NewRels(StageRelType(stage), StageOutgoing(stage),
                                      MergeBound(nodes, fnd),
                                      MatchEvent(nodes, event_id)))
                /\ pc' = [pc EXCEPT ![w] = next]
                /\ res' = [res EXCEPT ![w] = IF next = "ret" THEN "ok" ELSE ""]
                /\ merged' = Remember(label, id, props)
                /\ linked' = linked \cup {<<event_id, stage>>}
           ELSE /\ nodes' = FailedStatement(nodes, event_id)
                /\ pc' = [pc EXCEPT ![w] = "ret"]
                /\ res' = [res EXCEPT ![w] = FailureResult(w, stage)]
                /\ UNCHANGED <<rels, merged, linked>>
        /\ UNCHANGED <<inp, cur, eid, writes, nCreated, nQueued>>
        /\ UNCHANGED <<mapperVars, ruleVars, queueVars, dbVars>>

\* One entity statement, executed with no other statement in between.
Merge(w) ==
    /\ pc[w] \in {"src", "dst", "principal"}
    /\ phase[w] = "match"
    /\ LET stage == pc[w]
           frag == cur[w][stage]
       IN  \E sd \in SeedChoices(w, frag) : \E ok \in BOOLEAN :
              MergeApply(w,
                         MatchNodes(nodes,
                                    EntityType(frag, StageDefaultType(stage)),
                                    EntityId(frag, sd)),
                         sd, ok)

\* The writer returns: the consumer goes back to poll, create_event
\* answers, StoreInGraph yields.
ReturnWriter(w) ==
    /\ pc[w] = "ret"
    /\ pc' = [pc EXCEPT ![w] = "idle"]
    /\ inp' = [inp EXCEPT ![w] = NoInput]
    /\ cur' = [cur EXCEPT ![w] = EmptyDict]
    /\ eid' = [eid EXCEPT ![w] = NoEventId(w)]
    /\ res' = [res EXCEPT ![w] = ""]
    /\ UNCHANGED <<nodes, rels, seed, phase, found, writes, nCreated,
                   nQueued, merged, linked>>

Return(w) ==
    /\ ReturnWriter(w)
    /\ UNCHANGED <<mapperVars, ruleVars, queueVars, dbVars>>

Next ==
    \E w \in Writers :
        \/ \E msg \in Messages : ConsumerBegin(w, msg, TRUE)
        \/ \E req \in Requests : ApiBegin(w, req, TRUE)
        \/ \E element \in Elements : BeamBegin(w, element, TRUE)
        \/ CreateEvent(w)
        \/ Merge(w)
        \/ Return(w)

Spec == Init /\ [][Next]_vars

(***************************************************************************)
(* Concurrent writers.  Each statement is its own auto-commit transaction  *)
(* (Neo4jConnection.execute_query opens a session per call), the store     *)
(* runs them read-committed, and no uniqueness constraint is declared on   *)
(* any label: a MERGE first matches its pattern and then, having found     *)
(* nothing, creates the node, and statements of other transactions may     *)
(* commit in between.                                                      *)
(***************************************************************************)
\* The match of a MERGE statement.
MergeMatch(w) ==
    /\ pc[w] \in {"src", "dst", "principal"}
    /\ phase[w] = "match"
    /\ LET stage == pc[w]
           frag == cur[w][stage]
       IN  \E sd \in SeedChoices(w, frag) :
              /\ seed' = [seed EXCEPT ![w] = sd]
              /\ found' = [found EXCEPT ![w] =
                              MatchNodes(nodes,
                                         EntityType(frag, StageDefaultType(stage)),
                                         EntityId(frag, sd))]
    /\ phase' = [phase EXCEPT ![w] = "write"]
    /\ UNCHANGED <<nodes, rels, pc, inp, cur, eid, res, writes, nCreated,
                   nQueued, merged, linked>>
    /\ UNCHANGED <<mapperVars, ruleVars, queueVars, dbVars>>

\* The rest of the MERGE statement: it creates the node it did not find
\* and the relationship, and commits (or fails and changes nothing).
MergeWrite(w) ==
    /\ pc[w] \in {"src", "dst", "principal"}
    /\ phase[w] = "write"
    /\ \E ok \in BOOLEAN : MergeApply(w, found[w], seed[w], ok)

NextConc ==
    \E w \in Writers :
        \/ \E msg \in Messages : ConsumerBegin(w, msg, FALSE)
        \/ \E req \in Requests : ApiBegin(w, req, FALSE)
        \/ \E element \in Elements : BeamBegin(w, element, FALSE)
        \/ CreateEvent(w)
        \/ MergeMatch(w)
        \/ MergeWrite(w)
        \/ Return(w)

SpecConc == Init /\ [][NextConc]_vars

(***************************************************************************)
(* The mapper on its own: DetectSourceFormat and map_to_ocsf applied to    *)
(* every raw event over the fields the detector and the mappers read.      *)
(***************************************************************************)
\* The largest raw severity value tried.
MaxSeverity == 9

SeverityValues == (0 - 2)..MaxSeverity

MarkerKeys ==
    {"class_uid", "category_uid",
     "deviceVendor", "deviceProduct", "deviceVersion",
     "devname", "devtime", "devtype",
     "facility", "severity", "timestamp", "hostname"}

\* Raw mappings: any subset of the fields, any severity value.
ProbeDicts ==
    UNION {IF "severity" \in ks
           THEN {[k \in ks |-> IF k = "severity" THEN sv ELSE "v"] :
                    sv \in SeverityValues}
           ELSE {[k \in ks |-> "v"]} : ks \in SUBSET MarkerKeys}

\* Raw values that are not mappings: arrays of field names.
ProbeLists ==
    {[k \in ks \cup {ListTag} |-> "v"] :
        ks \in SUBSET {"class_uid", "category_uid", "deviceVendor",
                       "devname", "hostname"}}

ProbeEvents == ProbeDicts \cup ProbeLists

DeclaredFormats == {"ocsf", "syslog", "cef", "leef", "xml"}

InitMapper ==
    /\ InitWriters
    /\ InitDbOff
    /\ InitRulesOff
    /\ InitQueueOff
    /\ InitLoopOff
    /\ mstep = "new"
    /\ mraw \in ProbeEvents
    /\ mfmt = ""
    /\ mdet = <<>>
    /\ mout = EmptyDict

\* DetectSourceFormat.process
Detect ==
    /\ mstep = "new"
    /\ mdet' = DetectSourceFormatProcess(mraw)
    /\ mstep' = IF mdet' = <<>> THEN "dropped" ELSE "detected"
    /\ mfmt' = IF mdet' = <<>> THEN "" ELSE mdet'[1][2]
    /\ UNCHANGED <<mraw, mout>>
    /\ UNCHANGED <<writerVars, ruleVars, queueVars, dbVars>>

\* MapToOCSF.process on the detector's (event, source_format)
MapDetected ==
    /\ mstep = "detected"
    /\ mstep' = "mapped"
    /\ mout' = MapToOCSFProcess(mdet[1][1], mdet[1][2])
    /\ UNCHANGED <<mraw, mfmt, mdet>>
    /\ UNCHANGED <<writerVars, ruleVars, queueVars, dbVars>>

\* ocsf_schema.map_to_ocsf(event, source_format) with a declared format;
\* event.get of one of the three mappers raises AttributeError on a value
\* that is not a mapping.
MapDeclared(source_format) ==
    /\ mstep = "new"
    /\ mfmt' = source_format
    /\ IF IsDict(mraw) \/ source_format \notin {"syslog", "cef", "leef"}
       THEN /\ mstep' = "declared"
            /\ mout' = map_to_ocsf(mraw, source_format)
       ELSE /\ mstep' = "raised"
            /\ UNCHANGED mout
    /\ UNCHANGED <<mraw, mdet>>
    /\ UNCHANGED <<writerVars, ruleVars, queueVars, dbVars>>

NextMapper ==
    \/ Detect
    \/ MapDetected
    \/ \E source_format \in DeclaredFormats : MapDeclared(source_format)

SpecMapper == InitMapper /\ [][NextMapper]_vars

(***************************************************************************)
(* The rule store: detection_engine.rules, a dict keyed by rule_id, as the *)
(* rule handlers of api/main.py read and change it.  A dict keeps its keys *)
(* in insertion order; it is the sequence of its values here.              *)
(***************************************************************************)
\* The ids of the rules of a rules file, and the ids create_rule generates
\* (f"RULE-{str(uuid.uuid4())[:8]}").
FileRuleIds == {"R1", "R2"}

GeneratedIds == {"RULE-1"}

AllRuleIds == FileRuleIds \cup GeneratedIds

\* RuleCreate bodies.  The queries are opaque to the engine: "q0", "q1",
\* "q2" are queries the store answers with 0, 1, 2 rows, "bad" is one it
\* rejects.
RuleBodies ==
    {[name |-> "auth", description |-> "d", severity |-> 5, query |-> "q1",
      tags |-> <<"test">>, mitre_techniques |-> <<>>, enabled |-> TRUE],
     [name |-> "exfil", description |-> "d", severity |-> 9, query |-> "q2",
      tags |-> <<>>, mitre_techniques |-> <<>>, enabled |-> TRUE],
     [name |-> "broken", description |-> "d", severity |-> 5, query |-> "bad",
      tags |-> <<"test">>, mitre_techniques |-> <<>>, enabled |-> TRUE],
     [name |-> "off", description |-> "d", severity |-> 9, query |-> "q1",
      tags |-> <<>>, mitre_techniques |-> <<>>, enabled |-> FALSE],
     [name |-> "quiet", description |-> "d", severity |-> 7, query |-> "q0",
      tags |-> <<>>, mitre_techniques |-> <<>>, enabled |-> TRUE]}

\* DetectionRule(rule_id=rule_id, name=rule.name, ...)
DetectionRule(rule_id, body) == [rule_id |-> rule_id] @@ body

\* The positions of key rule_id in the dict.
RuleIndex(rs, rule_id) == {i \in 1..Len(rs) : rs[i].rule_id = rule_id}

\* rule_id in detection_engine.rules
HasRule(rs, rule_id) == RuleIndex(rs, rule_id) # {}

\* detection_engine.rules[rule_id]
DictGet(rs, rule_id) == rs[CHOOSE i \in RuleIndex(rs, rule_id) : TRUE]

\* Faulty variant: the rule is added even when its id is present.
DictSetAppend(rs, rule) == Append(rs, rule)

\* detection_engine.rules[rule.rule_id] = rule: the value of a present key
\* is replaced where it is, a new key goes last
DictSet(rs, rule) ==
    IF HasRule(rs, rule.rule_id)
    THEN [i \in 1..Len(rs) |->
            IF rs[i].rule_id = rule.rule_id THEN rule ELSE rs[i]]
    ELSE Append(rs, rule)

\* Faulty variant: the store is emptied.
DictDelClear(rs, rule_id) == <<>>

\* del detection_engine.rules[rule_id]
DictDel(rs, rule_id) == SelectSeq(rs, LAMBDA r : r.rule_id # rule_id)

\* detection_engine.load_rule(rule): inserts or replaces by rule_id
load_rule(rs, rule) == DictSet(rs, rule)

\* detection_engine.load_rules_from_file(path), on the rules of the file:
\* each is loaded in turn, replacing a rule with the same id
RECURSIVE load_rules_from_file(_, _)
load_rules_from_file(rs, file) ==
    IF file = <<>> THEN rs
    ELSE load_rules_from_file(load_rule(rs, Head(file)), Tail(file))

\* History: the rules last loaded per id, after loading `file`.
RECURSIVE RememberLoads(_, _)
RememberLoads(ld, file) ==
    IF file = <<>> THEN ld
    ELSE RememberLoads((Head(file).rule_id :> Head(file)) @@ ld, Tail(file))

\* The rules files of the model: a sequence of rule records.
RulesFiles ==
    {<<DetectionRule("R1", a), DetectionRule("R2", b)>> :
        a, b \in {r \in RuleBodies : r.name \in {"auth", "off"}}}
    \cup {<<>>}

\* A rule handler answers.
Answer(op, rule_id, status, result, rs, ld) ==
    /\ resp' = [op |-> op, rule_id |-> rule_id, status |-> status]
    /\ out' = result
    /\ prev' = rules
    /\ rules' = rs
    /\ loaded' = ld

\* detection_engine.load_rule(rule), called on the engine
LoadRule(rule_id, body) ==
    LET rule == DetectionRule(rule_id, body)
    IN  /\ Answer("load", rule_id, "ok", <<>>, load_rule(rules, rule),
                  (rule_id :> rule) @@ loaded)
        /\ UNCHANGED <<runs, nAlerts, stored>>
        /\ UNCHANGED <<writerVars, mapperVars, queueVars, dbVars>>

\* startup_event: detection_engine.load_rules_from_file(rules_file)
LoadRulesFromFile(file) ==
    /\ Answer("load_file", "", "ok", <<>>, load_rules_from_file(rules, file),
              RememberLoads(loaded, file))
    /\ UNCHANGED <<runs, nAlerts, stored>>
    /\ UNCHANGED <<writerVars, mapperVars, queueVars, dbVars>>

\* POST /rules
CreateRule(body) ==
    \E rule_id \in GeneratedIds :
        LET detection_rule == DetectionRule(rule_id, body)
        IN  /\ Answer("create", rule_id, "201", <<detection_rule>>,
                      load_rule(rules, detection_rule),
                      (rule_id :> detection_rule) @@ loaded)
            /\ UNCHANGED <<runs, nAlerts, stored>>
            /\ UNCHANGED <<writerVars, mapperVars, queueVars, dbVars>>

\* Faulty variant: an update of an absent rule_id creates the rule.
UpdateRuleUpsert(rule_id, body) ==
    /\ LET detection_rule == DetectionRule(rule_id, body)
       IN  Answer("update", rule_id, "200", <<detection_rule>>,
                  DictSet(rules, detection_rule),
                  (rule_id :> detection_rule) @@ loaded)
    /\ UNCHANGED <<runs, nAlerts, stored>>
    /\ UNCHANGED <<writerVars, mapperVars, queueVars, dbVars>>

\* PUT /rules/{rule_id}
UpdateRule(rule_id, body) ==
    /\ IF ~HasRule(rules, rule_id)
       THEN Answer("update", rule_id, "404", <<>>, rules, loaded)
       ELSE LET detection_rule == DetectionRule(rule_id, body)
            IN  Answer("update", rule_id, "200", <<detection_rule>>,
                       DictSet(rules, detection_rule),
                       (rule_id :> detection_rule) @@ loaded)
    /\ UNCHANGED <<runs, nAlerts, stored>>
    /\ UNCHANGED <<writerVars, mapperVars, queueVars, dbVars>>

\* DELETE /rules/{rule_id}
DeleteRule(rule_id) ==
    /\ IF ~HasRule(rules, rule_id)
       THEN Answer("delete", rule_id, "404", <<>>, rules, loaded)
       ELSE Answer("delete", rule_id, "204", <<>>, DictDel(rules, rule_id),
                   [k \in DOMAIN loaded \ {rule_id} |-> loaded[k]])
    /\ UNCHANGED <<runs, nAlerts, stored>>
    /\ UNCHANGED <<writerVars, mapperVars, queueVars, dbVars>>

\* GET /rules/{rule_id}
GetRule(rule_id) ==
    /\ IF ~HasRule(rules, rule_id)
       THEN Answer("get", rule_id, "404", <<>>, rules, loaded)
       ELSE Answer("get", rule_id, "200", <<DictGet(rules, rule_id)>>,
                   rules, loaded)
    /\ UNCHANGED <<runs, nAlerts, stored>>
    /\ UNCHANGED <<writerVars, mapperVars, queueVars, dbVars>>

NextRules ==
    \/ \E rule_id \in FileRuleIds : \E body \in RuleBodies :
          LoadRule(rule_id, body)
    \/ \E file \in RulesFiles : LoadRulesFromFile(file)
    \/ \E body \in RuleBodies : CreateRule(body)
    \/ \E rule_id \in AllRuleIds : \E body \in RuleBodies :
          UpdateRule(rule_id, body)
    \/ \E rule_id \in AllRuleIds : DeleteRule(rule_id)
    \/ \E rule_id \in AllRuleIds : GetRule(rule_id)

SpecRules == Init /\ [][NextRules]_vars

(***************************************************************************)
(* Detection runs: run_rule and run_detection of api/main.py, on the       *)
(* engine's run_detection and store_alert, over a graph that ingestion     *)
(* filled before.                                                          *)
(***************************************************************************)
\* Detection runs made in one behaviour.
MaxRuns == 1

\* The graph the rules are run on: a source entity, a destination entity
\* and an event between them.
SeedNodes ==
    <<NewNode("Host", FragA1 @@ EmptyDict),
      NewNode("IP", FragB @@ EmptyDict),
      NewNode("Event", EventParams(OcsfBase))>>

SeedRels ==
    SetToBag({[type |-> "GENERATED", from |-> 1, to |-> 3],
              [type |-> "TARGETS", from |-> 3, to |-> 2]})

\* The values of a result row, in column order: a node of the graph or a
\* scalar.
NodeValue(col, ref) == [col |-> col, kind |-> "node", ref |-> ref, value |-> 0]

ScalarValue(col, value) ==
    [col |-> col, kind |-> "scalar", ref |-> 0, value |-> value]

\* Whether the store rejects the query.
QueryFails(query) == query = "bad"

\* db.execute_query(rule.query): the rows the store answers with.
QueryRows(query) ==
    CASE query = "q1" -> <<<<NodeValue("src", 1), ScalarValue("attempts", 6)>>>>
      [] query = "q2" ->
           <<<<NodeValue("src", 1), NodeValue("dst", 2),
               ScalarValue("severity", 1)>>,
             <<NodeValue("src", 2), ScalarValue("severity", 2)>>>>
      [] OTHER -> <<>>

\* The entity reference of a node of a row.
EntityRef(ns, v) ==
    [type |-> ns[v.ref].label,
     id |-> ns[v.ref].props["id"],
     properties |-> Without(ns[v.ref].props, {"id", "type", "entity_type"})]

\* Faulty variant: a row's severity column overrides the rule's severity.
AlertOfRowSeverityFromRow(ns, rule, row, k) ==
    LET nodeValues == SelectSeq(row, LAMBDA v : v.kind = "node")
        sev == SelectSeq(row, LAMBDA v : v.kind = "scalar" /\ v.col = "severity")
    IN  [alert_id |-> ToString(k),
         rule_id |-> rule.rule_id,
         timestamp |-> "now",
         severity |-> IF sev = <<>> THEN rule.severity ELSE sev[1].value,
         entities |-> [i \in 1..Len(nodeValues) |-> EntityRef(ns, nodeValues[i])],
         context |-> EmptyDict]

\* The alert of one result row; k numbers the alerts generated so far
\* (alert_id is generated, and unique).
AlertOfRow(ns, rule, row, k) ==
    LET nodeValues == SelectSeq(row, LAMBDA v : v.kind = "node")
    IN  [alert_id |-> ToString(k),
         rule_id |-> rule.rule_id,
         timestamp |-> "now",
         severity |-> rule.severity,
         entities |-> [i \in 1..Len(nodeValues) |-> EntityRef(ns, nodeValues[i])],
         context |-> EmptyDict]

\* The alerts of one rule whose query the store answered: one per row.
AlertsOfRule(ns, rule, k) ==
    LET rows == QueryRows(rule.query)
    IN  [i \in 1..Len(rows) |-> AlertOfRow(ns, rule, rows[i], k + i)]

\* The alerts of the rules at the positions `chosen`, in the store's order,
\* from position i on.
RECURSIVE AlertsOfRules(_, _, _, _, _)
AlertsOfRules(ns, rs, k, chosen, i) ==
    IF i > Len(rs) THEN <<>>
    ELSE LET alerts == IF i \in chosen THEN AlertsOfRule(ns, rs[i], k) ELSE <<>>
         IN  alerts \o AlertsOfRules(ns, rs, k + Len(alerts), chosen, i + 1)

\* Faulty variant: a rule runs whether it is enabled or not.
RunEnabledRulesIgnoreEnabled(ns, rs, k) ==
    AlertsOfRules(ns, rs, k,
                  {i \in 1..Len(rs) : ~QueryFails(rs[i].query)}, 1)

\* Faulty variant: the run ends at the first rule whose query fails.
RunEnabledRulesStopAtFailure(ns, rs, k) ==
    AlertsOfRules(ns, rs, k,
                  {i \in 1..Len(rs) :
                      /\ rs[i].enabled
                      /\ \A j \in 1..i : rs[j].enabled => ~QueryFails(rs[j].query)},
                  1)

\* detection_engine.run_detection(): every enabled rule runs, in the
\* store's order; a disabled rule is skipped; a rule whose query fails is
\* logged and contributes nothing, and the run goes on with the next rule.
RunEnabledRules(ns, rs, k) ==
    AlertsOfRules(ns, rs, k,
                  {i \in 1..Len(rs) :
                      rs[i].enabled /\ ~QueryFails(rs[i].query)}, 1)

\* Faulty variant: the entities of the alert are created along with it.
StoreAlertNodesCreateEntities(ns, alert) ==
    Append(ns, NewNode("Alert",
                       [alert_id |-> alert.alert_id,
                        rule_id |-> alert.rule_id,
                        timestamp |-> alert.timestamp,
                        severity |-> alert.severity]))
    \o [i \in 1..Len(alert.entities) |->
           NewNode(alert.entities[i].type, [id |-> alert.entities[i].id])]

\* detection_engine.store_alert(alert) that completed: an Alert node and
\* an INVOLVES relationship to every node matching one of its entities.
StoreAlertNodes(ns, alert) ==
    Append(ns, NewNode("Alert",
                       [alert_id |-> alert.alert_id,
                        rule_id |-> alert.rule_id,
                        timestamp |-> alert.timestamp,
                        severity |-> alert.severity]))

StoreAlertRels(ns, rs, alert) ==
    AddRels(rs,
            {[type |-> "INVOLVES", from |-> Len(ns) + 1, to |-> n] :
                n \in UNION {MatchNodes(ns, alert.entities[i].type,
                                        alert.entities[i].id) :
                                i \in 1..Len(alert.entities)}})

\* Faulty variant: the first store that does not complete ends the loop.
RECURSIVE StoreAlertsStopAtFailure(_, _, _, _)
StoreAlertsStopAtFailure(g, alerts, i, failing) ==
    IF i > Len(alerts) \/ i \in failing THEN g
    ELSE StoreAlertsStopAtFailure(
             [nodes |-> StoreAlertNodes(g.nodes, alerts[i]),
              rels |-> StoreAlertRels(g.nodes, g.rels, alerts[i])],
             alerts, i + 1, failing)

\* for alert in alerts: detection_engine.store_alert(alert), where the
\* stores of the alerts at the positions `failing` do not complete
\* (store_alert answers False, the loop goes on): the graph afterwards.
RECURSIVE StoreAlerts(_, _, _, _)
StoreAlerts(g, alerts, i, failing) ==
    IF i > Len(alerts) THEN g
    ELSE StoreAlerts(IF i \in failing THEN g
                     ELSE [nodes |-> StoreAlertNodes(g.nodes, alerts[i]),
                           rels |-> StoreAlertRels(g.nodes, g.rels, alerts[i])],
                     alerts, i + 1, failing)

\* [AlertResponse(**alert.to_dict()) for alert in alerts]
AlertResponses(alerts) == alerts

\* The stores the rule handlers can leave: up to three rules, one per id.
Stores ==
    LET Rules == {DetectionRule(id, b) : id \in AllRuleIds, b \in RuleBodies}
    IN  UNION {{rs \in [1..n -> Rules] :
                  \A i, j \in 1..n : rs[i].rule_id = rs[j].rule_id => i = j} :
               n \in 0..Cardinality(AllRuleIds)}

InitDetect ==
    /\ nodes = SeedNodes
    /\ rels = SeedRels
    /\ pc = [w \in Writers |-> "idle"]
    /\ inp = [w \in Writers |-> NoInput]
    /\ cur = [w \in Writers |-> EmptyDict]
    /\ eid = [w \in Writers |-> NoEventId(w)]
    /\ res = [w \in Writers |-> ""]
    /\ seed = [w \in Writers |-> 0]
    /\ phase = [w \in Writers |-> "match"]
    /\ found = [w \in Writers |-> {}]
    /\ writes = 0
    /\ nCreated = 0
    /\ nQueued = 0
    /\ merged = <<>>
    /\ linked = {}
    /\ InitMapperOff
    /\ InitDbOff
    /\ InitQueueOff
    /\ InitLoopOff
    /\ rules \in Stores
    /\ resp = NoCall
    /\ out = <<>>
    /\ runs = 0
    /\ nAlerts = 0
    /\ stored = <<>>
    /\ loaded = [id \in {rules[i].rule_id : i \in 1..Len(rules)} |->
                   DictGet(rules, id)]
    /\ prev = rules

\* The handler has its alerts: it stores each and answers with all of them.
StoreAndAnswer(op, rule_id, alerts) ==
    \E failing \in SUBSET (1..Len(alerts)) :
        LET g == StoreAlerts([nodes |-> nodes, rels |-> rels], alerts, 1, failing)
        IN  /\ nodes' = g.nodes
            /\ rels' = g.rels
            /\ nAlerts' = nAlerts + Len(alerts)
            /\ stored' = [i \in 1..Len(alerts) |-> i \notin failing]
            /\ Answer(op, rule_id, "200", AlertResponses(alerts), rules, loaded)

\* POST /run-detection
RunDetection ==
    /\ runs < MaxRuns
    /\ runs' = runs + 1
    /\ StoreAndAnswer("run_all", "", RunEnabledRules(nodes, rules, nAlerts))
    /\ UNCHANGED <<pc, inp, cur, eid, res, seed, phase, found, writes,
                   nCreated, nQueued, merged, linked>>
    /\ UNCHANGED <<mapperVars, queueVars, dbVars>>

\* POST /rules/{rule_id}/run: run_detection(rule_id) runs the one rule if
\* it is enabled, and raises when its query fails.
RunRule(rule_id) ==
    /\ runs < MaxRuns
    /\ runs' = runs + 1
    /\ IF ~HasRule(rules, rule_id)
       THEN /\ Answer("run", rule_id, "404", <<>>, rules, loaded)
            /\ stored' = <<>> /\ UNCHANGED <<nodes, rels, nAlerts>>
       ELSE LET rule == DictGet(rules, rule_id)
            IN  IF rule.enabled /\ QueryFails(rule.query)
                THEN /\ Answer("run", rule_id, "500", <<>>, rules, loaded)
                     /\ stored' = <<>> /\ UNCHANGED <<nodes, rels, nAlerts>>
                ELSE StoreAndAnswer("run", rule_id,
                                    IF rule.enabled
                                    THEN AlertsOfRule(nodes, rule, nAlerts)
                                    ELSE <<>>)
    /\ UNCHANGED <<pc, inp, cur, eid, res, seed, phase, found, writes,
                   nCreated, nQueued, merged, linked>>
    /\ UNCHANGED <<mapperVars, queueVars, dbVars>>

NextDetect ==
    \/ RunDetection
    \/ \E rule_id \in AllRuleIds : RunRule(rule_id)

SpecDetect == InitDetect /\ [][NextDetect]_vars

(***************************************************************************)
(* The queue: create_event in queue mode and KafkaProducer.send_event      *)
(* (kafka/producer.py).                                                    *)
(***************************************************************************)
\* create_event calls in queue mode in one behaviour.
MaxSends == 2

\* What becomes of one message handed to the client library by
\* produce(...) followed by flush(timeout=10): it is delivered and the
\* delivery callback gets no error; the callback gets an error; the flush
\* returns after its timeout with the message still in the library's queue;
\* or produce itself raises (for instance on a full local queue).
SendOutcomes == {"delivered", "delivery_error", "flush_timeout", "produce_raises"}

\* KafkaProducer._delivery_callback(err, msg): the line it logs.  It
\* returns nothing and sets nothing.
delivery_callback(err) == IF err THEN "error" ELSE "debug"

\* KafkaProducer.send_event(event): its return value.  Only an exception
\* of json.dumps or produce reaches the except clause; the value that
\* flush returns (the number of messages still queued) is dropped.
send_event(event, outcome) == outcome # "produce_raises"

\* The temporary ids uuid4 can give.
TempIds == {"tmp-1"}

InitQueue ==
    /\ InitWriters
    /\ InitMapperOff
    /\ InitDbOff
    /\ InitRulesOff
    /\ topic = <<>>
    /\ pending = <<>>
    /\ sent = NoSend
    /\ qresp = NoResponse
    /\ sends = 0
    /\ use_kafka = TRUE
    /\ producer = FALSE
    /\ InitLoopOff

\* get_producer(): whether it returns a producer.  One that is set is
\* returned; otherwise one is made when use_kafka is on and the servers
\* are configured, and making it may fail (init_ok).
get_producer(init_ok) == producer \/ (use_kafka /\ init_ok)

\* Faulty variant: the event is published and written to the graph as well.
CreateEventQueuedAndWritten(req, outcome, temp_id) ==
    /\ sends + writes < MaxSends
    /\ use_kafka
    /\ \E init_ok \in BOOLEAN : get_producer(init_ok)
    /\ producer' = TRUE
    /\ sends' = sends + 1
    /\ CanBegin("api", TRUE)
    /\ Begin("api", req.event, req.source_format,
             ApiMapStep(req.event, req.source_format))
    /\ LET ocsf_event == ApiMapStep(req.event, req.source_format)
           kafka_message == [event |-> ocsf_event, source_format |-> "ocsf"]
           success == send_event(kafka_message, outcome)
       IN  /\ sent' = [outcome |-> outcome, callback |-> "", returned |-> success]
           /\ topic' = IF outcome = "delivered"
                       THEN Append(topic, kafka_message) ELSE topic
           /\ pending' = IF outcome = "flush_timeout"
                         THEN Append(pending, kafka_message) ELSE pending
           /\ qresp' = IF success
                       THEN [status |-> "201", id |-> temp_id]
                       ELSE [status |-> "500", id |-> ""]
    /\ UNCHANGED use_kafka
    /\ UNCHANGED <<mapperVars, ruleVars, loopVars, dbVars>>

\* create_event with settings.use_kafka and a producer at hand.
CreateEventQueued(req, outcome, temp_id) ==
    /\ sends + writes < MaxSends
    /\ use_kafka
    /\ \E init_ok \in BOOLEAN : get_producer(init_ok)
    /\ producer' = TRUE
    /\ UNCHANGED use_kafka
    /\ sends' = sends + 1
    /\ LET ocsf_event == ApiMapStep(req.event, req.source_format)
           kafka_message == [event |-> ocsf_event, source_format |-> "ocsf"]
           success == send_event(kafka_message, outcome)
       IN  /\ sent' = [outcome |-> outcome,
                        callback |-> IF outcome \in {"delivered", "delivery_error"}
                                     THEN delivery_callback(outcome = "delivery_error")
                                     ELSE "",
                        returned |-> success]
           /\ topic' = IF outcome = "delivered"
                       THEN Append(topic, kafka_message) ELSE topic
           /\ pending' = IF outcome = "flush_timeout"
                         THEN Append(pending, kafka_message) ELSE pending
           /\ qresp' = IF success
                       THEN [status |-> "201", id |-> temp_id]
                       ELSE [status |-> "500", id |-> ""]
    /\ UNCHANGED <<writerVars, mapperVars, ruleVars, loopVars, dbVars>>

\* A message left in the library's queue by a timed-out flush is delivered
\* after send_event returned.
LateDelivery ==
    /\ pending # <<>>
    /\ topic' = Append(topic, Head(pending))
    /\ pending' = Tail(pending)
    /\ UNCHANGED <<sent, qresp, sends, use_kafka, producer>>
    /\ UNCHANGED <<writerVars, mapperVars, ruleVars, loopVars, dbVars>>

\* A message left in the library's queue expires there undelivered.
LateFailure ==
    /\ pending # <<>>
    /\ pending' = Tail(pending)
    /\ UNCHANGED <<topic, sent, qresp, sends, use_kafka, producer>>
    /\ UNCHANGED <<writerVars, mapperVars, ruleVars, loopVars, dbVars>>

NextQueue ==
    \/ \E req \in Requests, outcome \in SendOutcomes, temp_id \in TempIds :
          CreateEventQueued(req, outcome, temp_id)
    \/ LateDelivery
    \/ LateFailure

SpecQueue == InitQueue /\ [][NextQueue]_vars

\* create_event in either mode.
InitCreate ==
    /\ InitWriters
    /\ InitMapperOff
    /\ InitDbOff
    /\ InitRulesOff
    /\ topic = <<>>
    /\ pending = <<>>
    /\ sent = NoSend
    /\ qresp = NoResponse
    /\ sends = 0
    /\ use_kafka \in BOOLEAN
    /\ producer = FALSE
    /\ InitLoopOff

\* create_event with queue mode off or no producer at hand, up to the
\* CREATE statement.
CreateEventDirect(req, init_ok) ==
    /\ sends + writes < MaxSends
    /\ ~(use_kafka /\ get_producer(init_ok))
    /\ CanBegin("api", TRUE)
    /\ Begin("api", req.event, req.source_format,
             ApiMapStep(req.event, req.source_format))
    /\ UNCHANGED <<mapperVars, ruleVars, queueVars, dbVars>>

\* The ids asked for: of nodes that may exist, of none, and no number.
AskedEventIds == {"1", "2", "9", "x"}

\* MATCH (e:Event) WHERE id(e) = toInteger($event_id) RETURN e
\* (toInteger of a text that is no number is null and matches nothing)
MatchEventById(ns, event_id) ==
    {n \in 1..Len(ns) : ns[n].label = "Event" /\ ToString(n) = event_id}

\* except Exception as e: raise HTTPException(status_code=500, ...).  It
\* catches every exception raised in the try, an HTTPException included.
ExceptException(raised) == "500"

\* get_event: the status it answers; ok: execute_query did not raise.
get_event(ns, event_id, ok) ==
    IF ~ok THEN ExceptException("error")
    ELSE IF MatchEventById(ns, event_id) = {} THEN ExceptException("404")
    ELSE "200"

\* The event get_event returns for node n.
EventOfNode(ns, n) ==
    [class_uid |-> Get(ns[n].props, "class_uid", "unknown"),
     category_uid |-> Get(ns[n].props, "category_uid", "unknown"),
     time |-> Get(ns[n].props, "time", ""),
     severity |-> Get(ns[n].props, "severity", 0),
     message |-> Get(ns[n].props, "message", "")]

\* GET /events/{event_id}; the call is recorded apart when its query
\* raised.
GetEvent(event_id, ok) ==
    /\ LET status == get_event(nodes, event_id, ok)
       IN  Answer(IF ok THEN "get_event" ELSE "get_event_query_failed",
                  event_id, status,
                  IF status = "200"
                  THEN <<EventOfNode(nodes,
                                     CHOOSE n \in MatchEventById(nodes, event_id) : TRUE)>>
                  ELSE <<>>,
                  rules, loaded)
    /\ UNCHANGED <<runs, nAlerts, stored>>
    /\ UNCHANGED <<writerVars, mapperVars, queueVars, dbVars>>

NextCreate ==
    \/ \E req \in Requests, outcome \in SendOutcomes, temp_id \in TempIds :
          CreateEventQueued(req, outcome, temp_id)
    \/ \E req \in Requests, init_ok \in BOOLEAN : CreateEventDirect(req, init_ok)
    \/ CreateEvent("api")
    \/ Merge("api")
    \/ Return("api")
    \/ LateDelivery
    \/ LateFailure
    \/ \E event_id \in AskedEventIds, ok \in BOOLEAN : GetEvent(event_id, ok)

SpecCreate == InitCreate /\ [][NextCreate]_vars

(***************************************************************************)
(* The consumer loop: KafkaConsumer.start of one instance, around the      *)
(* statements of process_event above.                                      *)
(***************************************************************************)
\* Polls one loop makes in one behaviour.
MaxPolls == 3

\* The instance whose loop is followed.
LoopConsumer == "c1"

\* A JSON array in place of the event.
ListEvent == [k \in {"hostname", ListTag} |-> "v"]

\* The messages on the partition.
LoopMessages ==
    {[event |-> OcsfBase, source_format |-> "ocsf"],
     [event |-> OcsfBase @@ [src |-> FragU, dst |-> FragB],
      source_format |-> "ocsf"],
     [event |-> SyslogEvent, source_format |-> "syslog"],
     [event |-> ListEvent, source_format |-> "syslog"]}

\* What consumer.poll(1.0) returns: None after the timeout, a message whose
\* error() is _PARTITION_EOF, a message with another error, a message whose
\* value is not JSON, or a message whose value parses.
PollResults ==
    {[kind |-> k, value |-> EmptyDict] : k \in {"none", "eof", "error", "badjson"}}
    \cup {[kind |-> "value", value |-> m] : m \in LoopMessages}

\* process_event raises inside its try before the CREATE statement: an
\* event that is no mapping has no get.
RaisesBeforeWrite(event_data) == ~IsDict(event_data)

InitLoop ==
    /\ InitWriters
    /\ InitMapperOff
    /\ InitDbOff
    /\ InitRulesOff
    /\ InitQueueOff
    /\ lstate = "new"
    /\ running = FALSE
    /\ closed = FALSE
    /\ polls = 0
    /\ polled = <<>>
    /\ handled = <<>>
    /\ llog = <<>>

\* Faulty variant: the next poll does not wait for process_event to return.
CanPollAnytime(w) == lstate = "loop" /\ running

\* while self.running: the loop is at its head, process_event has returned.
CanPoll(w) == lstate = "loop" /\ running /\ pc[w] = "idle"

\* finally: self.close(), on every way out of the try statement.
LeaveLoop(left) == left

\* start up to its try statement: running is set, then subscribe and the
\* two signal.signal calls are made, outside the try; ok: none of them
\* raised.
Start(w, ok) ==
    /\ lstate = "new"
    /\ running' = TRUE
    /\ lstate' = IF ok THEN "loop" ELSE "exited"
    /\ UNCHANGED <<closed, polls, polled, handled, llog>>
    /\ UNCHANGED <<writerVars, mapperVars, ruleVars, producerVars, dbVars>>

\* Faulty variant: no try around the parse and the processing, the
\* exception of a message reaches the outer except clause.
LoopEndsAfterNoInnerTry(kind) == kind \in {"raise", "badjson"}

\* Whether the loop is left after a poll: only an exception of poll itself
\* reaches the outer except clause; the inner one catches what the parse
\* and process_func raise.
LoopEndsAfter(kind) == kind = "raise"

\* One turn of the loop up to the CREATE statement of process_event, or to
\* the loop's head when the message gives nothing to write.
Poll(w, msg) ==
    /\ CanPoll(w)
    /\ polls < MaxPolls
    /\ polls' = polls + 1
    /\ polled' = Append(polled, msg)
    /\ lstate' = IF LoopEndsAfter(msg.kind) THEN "exited" ELSE lstate
    /\ closed' = LeaveLoop(LoopEndsAfter(msg.kind))
    /\ UNCHANGED running
    /\ CASE msg.kind \in {"none", "eof"} ->
              UNCHANGED <<writerVars, handled, llog>>
         [] msg.kind = "error" ->
              /\ llog' = Append(llog, <<polls + 1, "Kafka error">>)
              /\ UNCHANGED <<writerVars, handled>>
         [] msg.kind = "badjson" ->
              /\ llog' = Append(llog, <<polls + 1, "Failed to process message">>)
              /\ UNCHANGED <<writerVars, handled>>
         [] OTHER ->
              LET event_data == Get(msg.value, "event", EmptyDict)
                  source_format == Get(msg.value, "source_format", "unknown")
              IN  IF RaisesBeforeWrite(event_data)
                  THEN /\ llog' = Append(llog, <<polls + 1, "Failed to process event">>)
                       /\ handled' = Append(handled, polls + 1)
                       /\ UNCHANGED writerVars
                  ELSE /\ Begin(w, event_data, source_format,
                                ConsumerMapStep(event_data, source_format))
                       /\ UNCHANGED <<handled, llog>>
    /\ UNCHANGED <<mapperVars, ruleVars, producerVars, dbVars>>

\* consumer.poll raises: the outer except clause logs, finally closes.
PollRaises(w) ==
    /\ CanPoll(w)
    /\ polls < MaxPolls
    /\ polls' = polls + 1
    /\ polled' = Append(polled, [kind |-> "raise", value |-> EmptyDict])
    /\ lstate' = IF LoopEndsAfter("raise") THEN "exited" ELSE lstate
    /\ closed' = LeaveLoop(LoopEndsAfter("raise"))
    /\ llog' = Append(llog, <<polls + 1, "Error in Kafka consumer">>)
    /\ UNCHANGED <<running, handled>>
    /\ UNCHANGED <<writerVars, mapperVars, ruleVars, producerVars, dbVars>>

\* process_event returns to the loop; its except clause has logged a
\* statement that raised.
LoopReturn(w) ==
    /\ ReturnWriter(w)
    /\ handled' = Append(handled, polls)
    /\ llog' = IF res[w] = "error"
               THEN Append(llog, <<polls, "Failed to process event">>)
               ELSE llog
    /\ UNCHANGED <<lstate, running, closed, polls, polled>>
    /\ UNCHANGED <<mapperVars, ruleVars, producerVars, dbVars>>

\* _signal_handler
Signal ==
    /\ lstate = "loop"
    /\ running
    /\ running' = FALSE
    /\ UNCHANGED <<lstate, closed, polls, polled, handled, llog>>
    /\ UNCHANGED <<writerVars, mapperVars, ruleVars, producerVars, dbVars>>

\* The loop's condition fails: finally: self.close()
LoopClose(w) ==
    /\ lstate = "loop"
    /\ ~running
    /\ pc[w] = "idle"
    /\ lstate' = "exited"
    /\ closed' = LeaveLoop(TRUE)
    /\ UNCHANGED <<running, polls, polled, handled, llog>>
    /\ UNCHANGED <<writerVars, mapperVars, ruleVars, producerVars, dbVars>>

NextLoop ==
    \/ \E ok \in BOOLEAN : Start(LoopConsumer, ok)
    \/ \E msg \in PollResults : Poll(LoopConsumer, msg)
    \/ PollRaises(LoopConsumer)
    \/ CreateEvent(LoopConsumer)
    \/ Merge(LoopConsumer)
    \/ LoopReturn(LoopConsumer)
    \/ Signal
    \/ LoopClose(LoopConsumer)

SpecLoop == InitLoop /\ [][NextLoop]_vars

(***************************************************************************)
(* The alert listing: get_alerts of api/main.py on a graph of Alert nodes  *)
(* and the nodes they involve.                                             *)
(***************************************************************************)
\* An optional query parameter: absent, or present with a value.
NoParam(value) == [given |-> FALSE, value |-> value]

Param(value) == [given |-> TRUE, value |-> value]

\* The alerts of the listed graph, the later one second.
ListedAlerts ==
    <<NewNode("Alert", [alert_id |-> "alert-001", rule_id |-> "R1",
                        timestamp |-> "t1", severity |-> 5]),
      NewNode("Alert", [alert_id |-> "alert-002", rule_id |-> "R2",
                        timestamp |-> "t2", severity |-> 8])>>

\* The order of the timestamps of the model.
TimestampRank(timestamp) == IF timestamp = "t1" THEN 1 ELSE 2

\* The nodes an alert may involve: with a label or without one, with any
\* of the properties id, type, entity_type, ip.
InvolvedNodes ==
    {[label |-> l,
      props |-> [k \in ks |-> CASE k = "id" -> "e"
                                 [] k = "type" -> "T"
                                 [] k = "entity_type" -> "ET"
                                 [] OTHER -> "1"]] :
        l \in {"", "Host"}, ks \in SUBSET {"id", "type", "entity_type", "ip"}}

InitAlerts ==
    /\ pc = [w \in Writers |-> "idle"]
    /\ inp = [w \in Writers |-> NoInput]
    /\ cur = [w \in Writers |-> EmptyDict]
    /\ eid = [w \in Writers |-> NoEventId(w)]
    /\ res = [w \in Writers |-> ""]
    /\ seed = [w \in Writers |-> 0]
    /\ phase = [w \in Writers |-> "match"]
    /\ found = [w \in Writers |-> {}]
    /\ writes = 0
    /\ nCreated = 0
    /\ nQueued = 0
    /\ merged = <<>>
    /\ linked = {}
    /\ InitMapperOff
    /\ InitDbOff
    /\ InitRulesOff
    /\ InitQueueOff
    /\ InitLoopOff
    /\ \E e1, e2 \in InvolvedNodes : nodes = ListedAlerts \o <<e1, e2>>
    /\ \E both \in BOOLEAN :
          rels = SetToBag({[type |-> "INVOLVES", from |-> 1, to |-> 3],
                           [type |-> "INVOLVES", from |-> 2, to |-> 4]}
                          \cup IF both
                               THEN {[type |-> "INVOLVES", from |-> 2, to |-> 3]}
                               ELSE {})

\* labels(e)
Labels(node) == IF node.label = "" THEN <<>> ELSE <<node.label>>

\* MATCH (a:Alert) [WHERE ...] RETURN a ORDER BY a.timestamp DESC LIMIT
\* $limit: the ids of the nodes returned, in order.
MatchAlerts(ns, severity, rule_id, limit) ==
    LET hit == {n \in 1..Len(ns) :
                   /\ ns[n].label = "Alert"
                   /\ severity.given => ns[n].props["severity"] = severity.value
                   /\ rule_id.given => ns[n].props["rule_id"] = rule_id.value}
        sorted == CHOOSE s \in [1..Cardinality(hit) -> hit] :
                     /\ \A i, j \in DOMAIN s : s[i] = s[j] => i = j
                     /\ \A i, j \in DOMAIN s :
                           i < j => TimestampRank(ns[s[i]].props["timestamp"])
                                      >= TimestampRank(ns[s[j]].props["timestamp"])
    IN  SubSeq(sorted, 1, IF limit < Len(sorted) THEN limit ELSE Len(sorted))

\* MATCH (a:Alert {alert_id: $alert_id})-[:INVOLVES]->(e)
\* RETURN e, labels(e) as labels: the records, in the order of the nodes.
EntityRecords(ns, rs, alert_id) ==
    LET to == {r.to : r \in {q \in BagToSet(rs) :
                                 /\ q.type = "INVOLVES"
                                 /\ ns[q.from].label = "Alert"
                                 /\ ns[q.from].props["alert_id"] = alert_id}}
        sorted == CHOOSE s \in [1..Cardinality(to) -> to] :
                     \A i, j \in DOMAIN s : i < j => s[i] < s[j]
    IN  [i \in DOMAIN sorted |->
            [e |-> ns[sorted[i]].props, labels |-> Labels(ns[sorted[i]])]]

\* Faulty variant: the node's type property comes before the store's label.
ListedEntityTypeFirst(entity_record) ==
    LET entity == entity_record.e
    IN  [type |-> IF "type" \in DOMAIN entity THEN entity["type"]
                  ELSE IF entity_record.labels # <<>>
                  THEN entity_record.labels[1]
                  ELSE IF "entity_type" \in DOMAIN entity
                  THEN entity["entity_type"]
                  ELSE "Unknown",
         id |-> Get(entity, "id", "unknown"),
         properties |-> Without(entity, {"id", "type", "entity_type"})]

\* The entity get_alerts lists for one record.  The record's e is the
\* mapping record.data() made of the node, which has no labels attribute
\* and has items.
ListedEntity(entity_record) ==
    LET entity == entity_record.e
    IN  [type |-> IF entity_record.labels # <<>> THEN entity_record.labels[1]
                  ELSE IF "type" \in DOMAIN entity THEN entity["type"]
                  ELSE IF "entity_type" \in DOMAIN entity
                  THEN entity["entity_type"]
                  ELSE "Unknown",
         id |-> Get(entity, "id", "unknown"),
         properties |-> Without(entity, {"id", "type", "entity_type"})]

\* AlertResponse(...) of one Alert node
ListedAlert(ns, rs, n) ==
    LET records == EntityRecords(ns, rs, ns[n].props["alert_id"])
    IN  [alert_id |-> ns[n].props["alert_id"],
         rule_id |-> ns[n].props["rule_id"],
         timestamp |-> ns[n].props["timestamp"],
         severity |-> ns[n].props["severity"],
         entities |-> [i \in DOMAIN records |-> ListedEntity(records[i])],
         context |-> EmptyDict]

\* GET /alerts; ok: no query of the handler raised.
GetAlerts(severity, rule_id, limit, ok) ==
    /\ IF ok
       THEN LET found_ == MatchAlerts(nodes, severity, rule_id, limit)
            IN  Answer("alerts", rule_id.value, "200",
                       [i \in DOMAIN found_ |-> ListedAlert(nodes, rels, found_[i])],
                       rules, loaded)
       ELSE Answer("alerts", rule_id.value, "500", <<>>, rules, loaded)
    /\ UNCHANGED <<runs, nAlerts, stored>>
    /\ UNCHANGED <<writerVars, mapperVars, queueVars, dbVars>>

NextAlerts ==
    \E severity \in {NoParam(0), Param(5), Param(8)},
       rule_id \in {NoParam(""), Param("R1")},
       limit \in {1, 100}, ok \in BOOLEAN :
        GetAlerts(severity, rule_id, limit, ok)

SpecAlerts == InitAlerts /\ [][NextAlerts]_vars

(***************************************************************************)
(* The store connection: Neo4jConnection of utils/db.py.                   *)
(***************************************************************************)
\* Calls made on one connection in one behaviour.
MaxDbCalls == 4

\* What one _connect meets: GraphDatabase.driver raises; the driver is made
\* and the connection test raises or fails; the test passes and Graph(...)
\* raises; or all of it passes.
ConnectOutcomes == {"driver_raises", "test_fails", "graph_raises", "ok"}

\* _connect: the fields after it and whether it raised.  _driver is
\* assigned before the test, _graph after it; the except clause logs and
\* re-raises and resets nothing.
connect(d, g, outcome) ==
    [driver |-> IF outcome = "driver_raises" THEN d ELSE TRUE,
     graph |-> IF outcome = "ok" THEN TRUE ELSE g,
     raised |-> outcome # "ok"]

\* The call is recorded and the fields are set.
DbCall(op, answer, d, g, c) ==
    /\ Len(dbhist) < MaxDbCalls
    /\ dbhist' = Append(dbhist, [op |-> op, answer |-> answer])
    /\ driver' = d
    /\ graph' = g
    /\ connected' = c
    /\ UNCHANGED <<writerVars, mapperVars, ruleVars, queueVars>>

\* Neo4jConnection(auto_connect=True): the exception of _connect is logged,
\* the object is made.
DbInit(outcome) ==
    /\ dbhist = <<>>
    /\ LET r == connect(FALSE, FALSE, outcome)
       IN  DbCall("init", IF r.raised THEN "logged" ELSE "ok",
                  r.driver, r.graph, ~r.raised)

\* execute_query: `if not self._driver: self._connect()`, then the query
\* in a session of the driver; query_ok: the session and the query did not
\* raise.
DbExecuteQuery(outcome, query_ok) ==
    /\ dbhist # <<>>
    /\ IF driver
       THEN DbCall("execute_query",
                   IF query_ok THEN "rows" ELSE "raised",
                   driver, graph, connected)
       ELSE LET r == connect(driver, graph, outcome)
            IN  DbCall("execute_query",
                       IF r.raised THEN "connect_raised"
                       ELSE IF query_ok THEN "rows" ELSE "raised",
                       r.driver, r.graph, ~r.raised)

\* The graph property: `if not self._graph: self._connect()`
DbGraph(outcome) ==
    /\ dbhist # <<>>
    /\ IF graph
       THEN DbCall("graph", "graph", driver, graph, connected)
       ELSE LET r == connect(driver, graph, outcome)
            IN  DbCall("graph", IF r.raised THEN "connect_raised" ELSE "graph",
                       r.driver, r.graph, ~r.raised)

\* close()
DbClose ==
    /\ dbhist # <<>>
    /\ DbCall("close", "closed", FALSE, FALSE, FALSE)

NextDb ==
    \/ \E outcome \in ConnectOutcomes : DbInit(outcome)
    \/ \E outcome \in ConnectOutcomes, query_ok \in BOOLEAN :
          DbExecuteQuery(outcome, query_ok)
    \/ \E outcome \in ConnectOutcomes : DbGraph(outcome)
    \/ DbClose

SpecDb == Init /\ [][NextDb]_vars

(***************************************************************************)
(* Properties.                                                             *)
(***************************************************************************)
EventNodeIds == {i \in 1..Len(nodes) : nodes[i].label = "Event"}

EntityNodeIds ==
    {i \in 1..Len(nodes) : nodes[i].label \notin {"Event", "Alert"}}

\* (entity_type, identity_key) of an entity node
Identity(i) == <<nodes[i].label, nodes[i].props["id"]>>

\* The stored properties of an entity node, without its identity key.
StoredProps(i) == Without(nodes[i].props, {"id"})

AllIdle == \A w \in Writers : pc[w] = "idle"

\* The relationships of type `type` at node n, counted with multiplicity.
RelCount(type, n) ==
    LET at == {r \in BagToSet(rels) :
                  r.type = type /\ (r.from = n \/ r.to = n)}
    IN  BagCardinality([r \in at |-> rels[r]])

\* C1: when writes follow one another (on any of the three paths), the graph
\* holds at most one entity node per (entity_type, identity_key).
C1_OneNodePerIdentity ==
    \A i, j \in EntityNodeIds : Identity(i) = Identity(j) => i = j

\* Two events are linked to one and the same entity node.
C1_Witness ==
    \E i \in EntityNodeIds : RelCount("GENERATED", i) >= 2

\* C2: an entity node holds the union of the properties of the fragments
\* written for its identity, the later write winning on every shared key.
C2_MergeLastWriteWins ==
    \A i \in EntityNodeIds :
        Identity(i) \in DOMAIN merged => StoredProps(i) = merged[Identity(i)]

\* C3: every CREATE (e:Event) that succeeded left its own Event node: there
\* are as many Event nodes as successful creations, never fewer.
C3_EventsAppendOnly == Cardinality(EventNodeIds) = nCreated

\* The same canonical event was written twice and is there twice.
C3_Witness ==
    \E i, j \in EventNodeIds : i # j /\ nodes[i] = nodes[j]

\* The Event node the consumer writes for the model's syslog event.
SyslogEventNode == NewNode("Event", EventParams(map_syslog_to_ocsf(SyslogEvent)))

\* The entity nodes for hostname h.
HostnameEntities(h) ==
    {i \in EntityNodeIds :
        \/ nodes[i].props["id"] = h
        \/ "hostname" \in DOMAIN nodes[i].props /\ nodes[i].props["hostname"] = h}

\* C4: after the consumers handled the same syslog message twice on an
\* empty store, there are 2 Event nodes and 1 entity node for its hostname.
C4_SyslogTwice ==
    (/\ AllIdle
     /\ writes = 2 /\ nQueued = 2 /\ nCreated = 2
     /\ \A i \in 1..Len(nodes) : nodes[i] = SyslogEventNode)
    => /\ Cardinality(EventNodeIds) = 2
       /\ Cardinality(HostnameEntities(SyslogEvent.hostname)) = 1

\* C5: whatever the interleaving of concurrent writers' statements, there is
\* one entity node per identity, and each fragment written for an event has
\* exactly one relationship to that event's node.
C5_ConcurrentWritesSafe ==
    AllIdle =>
        /\ \A i, j \in EntityNodeIds : Identity(i) = Identity(j) => i = j
        /\ \A l \in linked : RelCount(StageRelType(l[2]), l[1]) = 1

\* C6: fragments without an id and with identical content collapse to one
\* entity node, whichever process resolved them.
C6_ContentKeyDeterministic ==
    \A i, j \in EntityNodeIds :
        (/\ nodes[i].props["id"] \notin SuppliedIds
         /\ nodes[j].props["id"] \notin SuppliedIds
         /\ nodes[i].label = nodes[j].label
         /\ StoredProps(i) = StoredProps(j))
        => i = j

\* C7: an event declared "ocsf" is handed to the write as it was received.
C7_OcsfUnchanged ==
    \A w \in Writers :
        (pc[w] = "create" /\ inp[w].fmt = "ocsf") => cur[w] = inp[w].event

\* An "ocsf" event with an entity fragment is about to be written.
C7_Witness ==
    \E w \in Writers :
        pc[w] = "create" /\ inp[w].fmt = "ocsf" /\ "src" \in DOMAIN cur[w]

C9_SyslogSeverityRemap ==
    (mstep \in {"mapped", "declared"} /\ mfmt = "syslog")
    => LET s == Get(mraw, "severity", 0)
       IN  /\ mout.severity = IF s \in 0..7 THEN 10 - s ELSE 5
           /\ mout.severity \in 3..10

\* A syslog event with a severity above 7 has been mapped.
C9_Witness ==
    /\ mstep \in {"mapped", "declared"}
    /\ mfmt = "syslog"
    /\ "severity" \in DOMAIN mraw
    /\ mraw["severity"] > 7

\* C10: an input with both class_uid and category_uid (a mapping with both
\* keys) is detected as "ocsf" whatever CEF, LEEF or syslog fields it also
\* carries.
C10_OcsfDetectedFirst ==
    (/\ mstep \in {"detected", "mapped"}
     /\ IsDict(mraw)
     /\ {"class_uid", "category_uid"} \subseteq DOMAIN mraw)
    => mfmt = "ocsf"

\* An input with the identifiers and CEF, LEEF and syslog fields is detected.
C10_Witness ==
    /\ mstep = "detected"
    /\ IsDict(mraw)
    /\ {"class_uid", "category_uid", "deviceVendor", "devname", "hostname"}
          \subseteq DOMAIN mraw

\* The formats in the order the detector is to test them.
C11_Order == <<"ocsf", "cef", "leef", "syslog">>

\* Whether a raw value has the shape of format f.
C11_Matches(e, f) ==
    /\ IsDict(e)
    /\ CASE f = "ocsf" -> {"class_uid", "category_uid"} \subseteq DOMAIN e
         [] f = "cef" ->
              {"deviceVendor", "deviceProduct", "deviceVersion"} \cap DOMAIN e # {}
         [] f = "leef" -> {"devname", "devtime", "devtype"} \cap DOMAIN e # {}
         [] f = "syslog" ->
              {"facility", "severity", "timestamp", "hostname"} \cap DOMAIN e # {}

\* The first format of the order that matches, or "unknown".
C11_FirstMatch(e) ==
    LET hits == {i \in 1..Len(C11_Order) : C11_Matches(e, C11_Order[i])}
    IN  IF hits = {} THEN "unknown"
        ELSE C11_Order[CHOOSE i \in hits : \A j \in hits : i <= j]

\* C11: the detector yields exactly one pair, of the input as it is and the
\* first format that matches in the order ocsf, cef, leef, syslog; the
\* format is "unknown" when none matches and for inputs that are not
\* mappings.
C11_DetectorOrder ==
    mstep \in {"detected", "mapped", "dropped"}
    => /\ Len(mdet) = 1
       /\ mdet[1] = <<mraw, C11_FirstMatch(mraw)>>
       /\ ~IsDict(mraw) => mdet[1][2] = "unknown"

\* An array holding both identifiers has been through the detector.
C11_Witness ==
    /\ mstep = "detected"
    /\ ~IsDict(mraw)
    /\ {"class_uid", "category_uid"} \subseteq DOMAIN mraw
    /\ mfmt = "unknown"

\* C12: every Event node has class_uid and category_uid; the node a writer
\* created holds the identifiers of the canonical event it was handed, and
\* "unknown" for one the event lacks.
C12_ClassCategoryPresent ==
    /\ \A i \in EventNodeIds :
          {"class_uid", "category_uid"} \subseteq DOMAIN nodes[i].props
    /\ \A w \in Writers :
          eid[w] # NoEventId(w) =>
            LET id == EventIdOf(w, eid[w], Len(nodes))
            IN  \A k \in {"class_uid", "category_uid"} :
                   /\ k \in DOMAIN nodes[id].props
                   /\ nodes[id].props[k] = Get(cur[w], k, "unknown")

\* The keys of the entity fragments of an event.
FragmentKeys == {"src", "dst", "principal"}

\* The relationships of type `type` between event node e and an entity
\* node, in the direction of the type, counted with multiplicity.
C13_Links(stage, e) ==
    LET at == {r \in BagToSet(rels) :
                  /\ r.type = StageRelType(stage)
                  /\ IF StageOutgoing(stage)
                     THEN r.to = e /\ r.from \in EntityNodeIds
                     ELSE r.from = e /\ r.to \in EntityNodeIds}
    IN  BagCardinality([r \in at |-> rels[r]])

\* C13: when a write returns and none of its statements failed, each entity
\* fragment of its event (src, dst, principal) has exactly one relationship
\* of its type and direction at the event's node, and the store holds no
\* relationship besides those of the fragments written.
C13_TypedRelationships ==
    /\ BagCardinality(rels) = Cardinality(linked)
    /\ \A w \in Writers :
          (/\ pc[w] = "ret"
           /\ eid[w] # NoEventId(w)
           /\ \A stage \in FragmentKeys \cap DOMAIN cur[w] :
                 stage \in {Stages(w)[i] : i \in 1..Len(Stages(w))}
                 => <<EventIdOf(w, eid[w], Len(nodes)), stage>> \in linked)
          => \A stage \in FragmentKeys \cap DOMAIN cur[w] :
                C13_Links(stage, EventIdOf(w, eid[w], Len(nodes))) = 1

\* C14: no step removes or changes a node or removes a relationship: the
\* Event node of a write, and the entities and relationships already
\* written for it, stay when a later statement of the write fails.
C14_EventNodeDurable ==
    [][/\ Len(nodes') >= Len(nodes)
       /\ \A i \in 1..Len(nodes) : nodes'[i] = nodes[i]
       /\ \A r \in BagToSet(rels) :
             r \in BagToSet(rels') /\ rels'[r] >= rels[r]]_vars

\* A write gave up at its dst statement with its Event node and its src
\* entity written.
C14_Witness ==
    \E w \in Writers :
        /\ pc[w] = "ret"
        /\ eid[w] # NoEventId(w)
        /\ "dst" \in DOMAIN cur[w]
        /\ LET id == EventIdOf(w, eid[w], Len(nodes))
           IN  /\ <<id, "src">> \in linked
               /\ <<id, "dst">> \notin linked
               /\ id \in EventNodeIds
               /\ C13_Links("src", id) = 1

\* C15: a writer that has executed the statement of one fragment, whether
\* the statement succeeded or failed, goes on to the next fragment of the
\* event (and returns after the last).
C15_EntityFailureLocal ==
    [][\A w \in Writers :
          (pc[w] \in FragmentKeys /\ pc'[w] # pc[w])
          => pc'[w] = NextStage(w, cur[w], pc[w])]_vars

\* C16: a write whose Event statement failed (the connection could not be
\* made or the store rejected the CREATE) leaves the graph as it was and
\* raises to its caller; a write that did not fail hands its caller the id
\* of the new Event node.
C16_WriteReturnsIdOrFails ==
    [][\A w \in Writers :
          (pc[w] = "create" /\ pc'[w] # "create")
          => IF eid'[w] = NoEventId(w)
             THEN /\ nodes' = nodes
                  /\ rels' = rels
                  /\ pc'[w] = "ret"
                  /\ WriteResult(w, res'[w], eid'[w]).kind = "raise"
             ELSE /\ EventIdOf(w, eid'[w], Len(nodes')) \in
                       {i \in 1..Len(nodes') : nodes'[i].label = "Event"}
                       \ EventNodeIds
                  /\ pc'[w] = "ret" =>
                       WriteResult(w, res'[w], eid'[w]).value
                          = ToString(EventIdOf(w, eid'[w], Len(nodes')))]_vars

\* C17: the store holds one rule per rule_id, the rule last loaded (or put
\* by an update) under that id and not removed since; a load under a
\* present id leaves the number of rules as it was, a load under a new id
\* adds one, and the rules of all other ids stay as they were.
C17_OneRulePerId ==
    /\ \A i, j \in 1..Len(rules) :
          rules[i].rule_id = rules[j].rule_id => i = j
    /\ {rules[i].rule_id : i \in 1..Len(rules)} = DOMAIN loaded
    /\ \A i \in 1..Len(rules) : rules[i] = loaded[rules[i].rule_id]
    /\ resp.op \in {"load", "create"} =>
          /\ Len(rules) = IF HasRule(prev, resp.rule_id) THEN Len(prev)
                          ELSE Len(prev) + 1
          /\ \A i \in 1..Len(prev) :
                prev[i].rule_id # resp.rule_id => rules[i] = prev[i]

\* A rule was loaded under an id that was present with another body.
C17_Witness ==
    /\ resp.op = "load"
    /\ HasRule(prev, resp.rule_id)
    /\ DictGet(prev, resp.rule_id) # DictGet(rules, resp.rule_id)
    /\ Len(rules) >= 2

\* C18: a delete of an id that is not in the store answers 404 and leaves
\* the store as it was; a delete of a present id removes that rule and no
\* other; a get answers 404 exactly for the ids with no rule loaded since
\* their last removal.
C18_RemoveNotFound ==
    /\ resp.op = "delete" =>
          IF HasRule(prev, resp.rule_id)
          THEN /\ resp.status = "204"
               /\ ~HasRule(rules, resp.rule_id)
               /\ Len(rules) = Len(prev) - 1
               /\ \A i \in 1..Len(prev) :
                     prev[i].rule_id # resp.rule_id
                     => \E j \in 1..Len(rules) : rules[j] = prev[i]
          ELSE resp.status = "404" /\ rules = prev
    /\ resp.op = "get" =>
          /\ rules = prev
          /\ resp.status = IF resp.rule_id \in DOMAIN loaded THEN "200" ELSE "404"

\* One of several rules was deleted.
C18_Witness ==
    /\ resp.op = "delete"
    /\ resp.status = "204"
    /\ Len(prev) >= 2

\* The rule_ids of the alerts a call returned.
AlertRuleIds == {out[i].rule_id : i \in 1..Len(out)}

\* The alerts a call returned for rule_id.
AlertsFor(rule_id) == SelectSeq(out, LAMBDA a : a.rule_id = rule_id)

\* C19: a run of all rules returns alerts of rules that are in the store
\* and enabled, and of no other: a disabled rule has no alert among them,
\* and every enabled rule whose query the store answers has one alert per
\* row of its result.
C19_RunAllEnabledOnly ==
    resp.op = "run_all" =>
        /\ \A id \in AlertRuleIds :
              HasRule(rules, id) /\ DictGet(rules, id).enabled
        /\ \A i \in 1..Len(rules) :
              /\ ~rules[i].enabled => AlertsFor(rules[i].rule_id) = <<>>
              /\ (rules[i].enabled /\ ~QueryFails(rules[i].query))
                 => Len(AlertsFor(rules[i].rule_id))
                      = Len(QueryRows(rules[i].query))

\* All rules were run on a store with a disabled rule between two enabled
\* ones, and alerts came back.
C19_Witness ==
    /\ resp.op = "run_all"
    /\ Len(rules) = 3
    /\ rules[1].enabled /\ ~rules[2].enabled /\ rules[3].enabled
    /\ rules[2].query = "q1"
    /\ Len(out) >= 3

\* C20: in a run of all rules, a rule whose query fails takes nothing from
\* the others: every other enabled rule, before or after it in the store,
\* has its alerts returned, one per row of its result.
C20_RuleFailureIsolated ==
    (/\ resp.op = "run_all"
     /\ \E i \in 1..Len(rules) : rules[i].enabled /\ QueryFails(rules[i].query))
    => /\ resp.status = "200"
       /\ \A i \in 1..Len(rules) :
             (rules[i].enabled /\ ~QueryFails(rules[i].query))
             => /\ Len(AlertsFor(rules[i].rule_id))
                     = Len(QueryRows(rules[i].query))
                /\ \A n \in 1..Len(AlertsFor(rules[i].rule_id)) :
                      AlertsFor(rules[i].rule_id)[n].severity = rules[i].severity

\* All rules were run with the failing rule first and a rule with results
\* after it.
C20_Witness ==
    /\ resp.op = "run_all"
    /\ Len(rules) >= 2
    /\ rules[1].enabled /\ QueryFails(rules[1].query)
    /\ rules[2].enabled /\ rules[2].query = "q2"
    /\ Len(AlertsFor(rules[2].rule_id)) = 2

\* C21: a run of one enabled rule whose query the store answers returns one
\* alert per row of the result, none for an empty result, each with the
\* rule's rule_id and the rule's severity, whatever the row holds.
C21_OneAlertPerRow ==
    (resp.op = "run" /\ resp.status = "200" /\ DictGet(rules, resp.rule_id).enabled)
    => LET rule == DictGet(rules, resp.rule_id)
       IN  /\ Len(out) = Len(QueryRows(rule.query))
           /\ \A i \in 1..Len(out) :
                 /\ out[i].rule_id = rule.rule_id
                 /\ out[i].severity = rule.severity

\* A rule whose result rows carry a severity of their own was run.
C21_Witness ==
    /\ resp.op = "run"
    /\ resp.status = "200"
    /\ DictGet(rules, resp.rule_id).query = "q2"
    /\ Len(out) = 2
    /\ out[1].severity = 9

\* The nodes of an alert_id.
AlertNodes(alert_id) ==
    {n \in 1..Len(nodes) :
        nodes[n].label = "Alert" /\ nodes[n].props["alert_id"] = alert_id}

\* The INVOLVES relationships leaving node n, counted with multiplicity.
InvolvesFrom(n) ==
    LET at == {r \in BagToSet(rels) : r.type = "INVOLVES" /\ r.from = n}
    IN  BagCardinality([r \in at |-> rels[r]])

C23_FailedStoreReturnsFalse ==
    (resp.op \in {"run", "run_all"} /\ \E i \in 1..Len(stored) : ~stored[i])
    => /\ resp.status = "200"
       /\ Len(out) = Len(stored)
       /\ \A i \in 1..Len(stored) :
             Cardinality(AlertNodes(out[i].alert_id)) = IF stored[i] THEN 1 ELSE 0

\* The first store of a run failed and a later one completed.
C23_Witness ==
    /\ Len(stored) >= 2
    /\ ~stored[1]
    /\ stored[Len(stored)]
    /\ AlertNodes(out[Len(stored)].alert_id) # {}

\* C24: send_event returns True only for a message that was delivered, so
\* create_event in queue mode answers 201 only for an event that reached the
\* topic.
C24_SendTrueOnlyIfDelivered ==
    /\ sent.returned => sent.outcome = "delivered"
    /\ qresp.status = "201" => sent.outcome = "delivered"

\* The entity fragments of the model's inputs.
InputFragments == {FragA1, FragA2, FragH1, FragH2, FragU, FragB, FragP}

\* C25: the type of every entity node is the type its fragment carries, or
\* "Unknown" when the fragment carries none, for src, dst and principal
\* alike.
C25_DefaultTypeUnknown ==
    \A n \in EntityNodeIds :
        \E frag \in InputFragments :
            /\ nodes[n].label = Get(frag, "type", "Unknown")
            /\ "id" \in DOMAIN frag => nodes[n].props["id"] = frag.id

\* The write of w has returned with every statement of it done.
C26_Written(w) ==
    /\ pc[w] = "ret"
    /\ eid[w] # NoEventId(w)
    /\ \A i \in 1..Len(Stages(w)) :
          Stages(w)[i] \in DOMAIN cur[w]
          => <<EventIdOf(w, eid[w], Len(nodes)), Stages(w)[i]>> \in linked

\* C26: two writers that wrote the same canonical event left Event nodes
\* with the same properties, and a relationship of each fragment's type at
\* the one Event node exactly when there is one at the other.
C26_WritersEquivalent ==
    \A w1, w2 \in Writers :
        (/\ C26_Written(w1)
         /\ C26_Written(w2)
         /\ Without(cur[w1], {"_id"}) = Without(cur[w2], {"_id"}))
        => LET e1 == EventIdOf(w1, eid[w1], Len(nodes))
               e2 == EventIdOf(w2, eid[w2], Len(nodes))
           IN  /\ nodes[e1].props = nodes[e2].props
               /\ \A stage \in FragmentKeys :
                     (C13_Links(stage, e1) > 0) = (C13_Links(stage, e2) > 0)

\* The polls that returned a message whose value parsed.
ValuePolls == {k \in 1..polls : polled[k].kind = "value"}

\* The loop's instance is inside process_event.
Processing == pc[LoopConsumer] # "idle"

\* C27: what the consumer writes belongs to the message polled last, and
\* process_event has returned from every message polled before it, in poll
\* order: no message is polled while the statements of another are pending.
C27_OneAtATime ==
    /\ Processing
       => /\ polls \in ValuePolls
          /\ inp[LoopConsumer].event = Get(polled[polls].value, "event", EmptyDict)
    /\ {handled[i] : i \in 1..Len(handled)}
         = ValuePolls \ (IF Processing THEN {polls} ELSE {})
    /\ \A i, j \in 1..Len(handled) : i < j => handled[i] < handled[j]

\* Two messages were written one after the other.
C27_Witness ==
    /\ Len(handled) = 2
    /\ nCreated = 2
    /\ ~Processing
    /\ \E e \in EventNodeIds :
          RelCount("GENERATED", e) = 1 /\ RelCount("TARGETS", e) = 1

\* The errors logged for poll k.
LoggedFor(k) == {i \in 1..Len(llog) : llog[i][1] = k}

\* Poll k returned a message that could not be processed.
FailedPoll(k) ==
    \/ polled[k].kind \in {"error", "badjson"}
    \/ \E i \in LoggedFor(k) : llog[i][2] = "Failed to process event"

\* C28: a message that could not be processed is logged once and handled
\* at most once, the loop ends only on a signal or when poll itself raises,
\* and process_event is entered for every message polled after the failed
\* one.
C28_FailureKeepsLoop ==
    /\ closed => (~running \/ polled[polls].kind = "raise")
    /\ \A k \in 1..polls :
          FailedPoll(k)
          => /\ Cardinality(LoggedFor(k)) = 1
             /\ Cardinality({i \in 1..Len(handled) : handled[i] = k}) <= 1
             /\ \A j \in (k + 1)..polls :
                   polled[j].kind = "value"
                   => \/ \E i \in 1..Len(handled) : handled[i] = j
                      \/ j = polls /\ Processing

\* After a transport error, a value that is no JSON and a write that the
\* store rejected, a later message was written.
C28_Witness ==
    /\ polls = MaxPolls
    /\ \E k \in 1..polls : polled[k].kind = "badjson"
    /\ \E k \in 1..(polls - 1) :
          \E i \in LoggedFor(k) : llog[i][2] = "Failed to process event"
    /\ polled[polls].kind = "value"
    /\ handled # <<>>
    /\ handled[Len(handled)] = polls
    /\ LoggedFor(polls) = {}
    /\ nCreated >= 1

\* C29: the event mapped from a syslog, CEF or LEEF event has a severity in
\* 0..10, whatever severity the raw event carries.
C29_SeverityInRange ==
    (mstep \in {"mapped", "declared"} /\ mfmt \in {"syslog", "cef", "leef"})
    => mout.severity \in 0..10

\* C30: no statement of a write, done or failed, changes the canonical
\* event the writer was handed.
C30_EventImmutable ==
    [][\A w \in Writers :
          (pc[w] # "idle" /\ pc'[w] # "idle") => cur'[w] = cur[w]]_vars

\* C31: an update of a present rule_id answers 200, leaves the number of
\* rules and every other rule as they were, and puts the rule it returns,
\* with that rule_id, in the place of the old one; an update of an absent
\* rule_id answers 404 and leaves the store as it was.
C31_UpdateKeepsIdAndCount ==
    resp.op = "update" =>
        IF HasRule(prev, resp.rule_id)
        THEN /\ resp.status = "200"
             /\ Len(rules) = Len(prev)
             /\ Len(out) = 1
             /\ out[1].rule_id = resp.rule_id
             /\ out[1] \in {DetectionRule(resp.rule_id, b) : b \in RuleBodies}
             /\ \A i \in 1..Len(prev) :
                   rules[i] = IF prev[i].rule_id = resp.rule_id
                              THEN out[1] ELSE prev[i]
        ELSE /\ resp.status = "404"
             /\ rules = prev
             /\ out = <<>>

\* One of several rules was updated to another body.
C31_Witness ==
    /\ resp.op = "update"
    /\ resp.status = "200"
    /\ Len(prev) >= 2
    /\ DictGet(prev, resp.rule_id) # DictGet(rules, resp.rule_id)

\* The node of the i-th entity listed for alert a: the i-th of the nodes
\* the Alert node of a.alert_id involves, in the order of the nodes.
ListedNode(a, i) ==
    LET to == {r.to : r \in {q \in BagToSet(rels) :
                                 /\ q.type = "INVOLVES"
                                 /\ q.from \in AlertNodes(a.alert_id)}}
    IN  nodes[CHOOSE n \in to : Cardinality({m \in to : m < n}) = i - 1]

\* C32: each entity the listing returns has as type the label of its node
\* when the node has one, else the node's type property, else its
\* entity_type property, else "Unknown", and has the node's properties
\* without id, type and entity_type.
C32_ListedTypePrecedence ==
    (resp.op = "alerts" /\ resp.status = "200")
    => \A k \in 1..Len(out) : \A i \in 1..Len(out[k].entities) :
          LET node == ListedNode(out[k], i)
              listed == out[k].entities[i]
          IN  /\ node.label # "" => listed.type = node.label
              /\ (node.label = "" /\ "type" \in DOMAIN node.props)
                    => listed.type = node.props["type"]
              /\ (node.label = "" /\ "type" \notin DOMAIN node.props
                     /\ "entity_type" \in DOMAIN node.props)
                    => listed.type = node.props["entity_type"]
              /\ (node.label = "" /\ "type" \notin DOMAIN node.props
                     /\ "entity_type" \notin DOMAIN node.props)
                    => listed.type = "Unknown"
              /\ DOMAIN listed.properties
                    = DOMAIN node.props \ {"id", "type", "entity_type"}
              /\ \A key \in DOMAIN listed.properties :
                    listed.properties[key] = node.props[key]

\* A listed entity has a label and a type property, another has neither
\* and an entity_type.
C32_Witness ==
    /\ resp.op = "alerts"
    /\ resp.status = "200"
    /\ \E k \in 1..Len(out) :
          /\ Len(out[k].entities) = 2
          /\ out[k].entities[1].type = "Host"
          /\ "type" \in DOMAIN ListedNode(out[k], 1).props
          /\ out[k].entities[2].type = "ET"

\* C33: a create_event that publishes issues no graph statement and begins
\* no write, and is made with queue mode on and a producer at hand; a
\* create_event that begins the direct write publishes nothing and is made
\* with queue mode off or with no producer.
C33_PublishOrWrite ==
    [][/\ sends' # sends
          => /\ UNCHANGED <<nodes, rels, pc, writes, nCreated>>
             /\ use_kafka /\ producer'
       /\ writes' # writes
          => /\ UNCHANGED <<topic, pending, sends, sent>>
             /\ ~(use_kafka /\ producer')]_vars

\* With queue mode on, one event was written directly while no producer
\* could be made, and a later one was published.
C33_Witness ==
    /\ use_kafka
    /\ writes = 1
    /\ nCreated = 1
    /\ sends = 1
    /\ topic # <<>>

\* C34: when the direct write of create_event answers 500, the graph holds
\* no Event node that this request created.
C34_ErrorLeavesNoEvent ==
    (/\ pc["api"] = "ret"
     /\ WriteResult("api", res["api"], eid["api"]).kind = "raise")
    => \/ eid["api"] = NoEventId("api")
       \/ EventIdOf("api", eid["api"], Len(nodes)) \notin EventNodeIds

\* C35: a get_event whose query did not fail answers 404 when the id
\* matches no Event node, and never 500.
C35_GetEventNotFound ==
    resp.op = "get_event"
    => /\ resp.status \in {"200", "404"}
       /\ MatchEventById(nodes, resp.rule_id) = {} => resp.status = "404"

\* C36: once running is False no further message is polled, and whenever
\* start has been left, by the loop's condition, by an error in the loop or
\* by an error before it, close has been called.
C36_ShutdownCloses ==
    /\ [](lstate = "exited" => closed)
    /\ [][~running => polls' = polls]_vars

\* C37: _driver is set only if the last _connect ran to its end, so after a
\* _connect that failed, and after close, the next execute_query connects
\* anew.
C37_DriverMeansConnected == driver => connected

====
